---- MODULE Spec2Model ----
(***************************************************************************)
(* A model of the resume-screener server: the API key / tier manager       *)
(* (server/services/apiKeyManager.js), the HTTP layer that drives it       *)
(* (server/index.js), the upload filter (fileOptimizer.validateFile) and   *)
(* the cache service (server/services/cacheService.js).                    *)
(*                                                                         *)
(* Calendar dates are records [month, day]; `month` stands for the         *)
(* 'YYYY-MM' prefix of an ISO date string and `day` for its 'DD' part, so  *)
(* that date equality and substring(0, 7) are modelled as the code         *)
(* computes them.  Timestamps (createdAt, lastUsed) are kept at date       *)
(* granularity.  The inert payload of a record (name, email, lastModified) *)
(* is left out.                                                            *)
(***************************************************************************)
EXTENDS Integers, Sequences, FiniteSets, TLC

VARIABLES
  clock,        \* index into Calendar: the wall clock (new Date())
  apiKeys,      \* APIKeyManager.apiKeys.keys : key -> key record
  users,        \* APIKeyManager.users.users  : userId -> user record
  keysFile,     \* config/api-keys.json as last written
  usersFile,    \* config/users.json as last written
  savePending,  \* number of setImmediate(saveAPIKeys) callbacks queued
  calls,        \* recordUsage calls made so far (bounds the exploration)
  pending,      \* the key of the request that passed validation and has not
                \* reached recordUsage yet, or NoKey
  okToday,      \* per key, the requests that passed validation on the current date
  ret,          \* the last call and what it returned
  reqs,         \* the analyze requests in flight, by slot
  resp,         \* the last HTTP response sent
  memoryCache,  \* CacheService.memoryCache : cache key -> [value, t]
  redis,        \* CacheService.redisClient and the data of the Redis server
  uptime,       \* Date.now(), in seconds since the server started
  analysedAt,   \* history: per text, when an analysis of it was last
                \* completed since the last flush request, or NoTime
  cacheRet,     \* the last direct call of CacheService.get or set and what
                \* it returned
  anIn,         \* the last call of the resume analyzer: its arguments
  anOut,        \* and what it returned or threw
  jobs,         \* the jobs of the Bull queue 'resume analysis', by job id
  paused,       \* is the queue paused?
  tempFiles,    \* the files multer stored for which no unlink was called:
                \* the slot of their request, or NoSlot once it was answered
  adminConfig,  \* AdminDashboard.adminConfig: the admin's lastLogin and
                \* settings.maintenanceMode
  backups,      \* the files backup_<timestamp>.json of the backups directory
  counters,     \* UsageTracker.counters
  analyticsFile \* logs/analytics.json: the counters last saved, or NoAnalytics

keyVars ==
  <<clock, apiKeys, users, keysFile, usersFile, savePending, calls, pending,
    okToday, ret>>

\* the state that the HTTP handlers of the key store and of the analyze
\* route leave alone
analyzerVars == <<anIn, anOut>>

queueVars == <<jobs, paused>>

trackVars == <<counters, analyticsFile>>

sideVars == <<queueVars, tempFiles, adminConfig, backups, trackVars>>

backVars == <<cacheRet, analyzerVars, sideVars>>

httpVars == <<reqs, resp, memoryCache, redis, uptime, analysedAt, backVars>>

vars == <<keyVars, httpVars>>

(***************************************************************************)
(* Bounds of the exploration.                                              *)
(***************************************************************************)
MaxRecords == 11       \* recordUsage calls per run in the quota specification
MaxUses == 2           \* recordUsage calls per run in the key-store specification
MaxPendingSaves == 1   \* queued setImmediate saves that are told apart

(***************************************************************************)
(* The dates at which the server is exercised: a day, the next day of the  *)
(* same month, the first day of the next month, and a day more than six    *)
(* months later (cleanup's cutoff).                                        *)
(***************************************************************************)
Calendar ==
  << [month |-> 1, day |-> 10], [month |-> 1, day |-> 11],
     [month |-> 2, day |-> 1], [month |-> 9, day |-> 1] >>

Today == Calendar[clock]
NullDate == [month |-> 0, day |-> 0]            \* lastUsed: null
MonthOf(date) == date.month                     \* date.substring(0, 7)
Before(a, b) == a.month < b.month \/ (a.month = b.month /\ a.day < b.day)

KeyIds == {"k1", "k2"}
NoKey == "none"
UserIds == {"u1", "u2"}
ValidTiers == {"free", "premium", "enterprise"}
NoTier == "undefined"                            \* userInfo.tier absent
TierInputs == ValidTiers \cup {"gold", NoTier}   \* what a caller may pass as tier

(***************************************************************************)
(* getTierLimits: the fixed table, with the free entry for any other tier. *)
(* maxFileSize is in MB.                                                   *)
(***************************************************************************)
FreeLimits ==
  [dailyRequests |-> 10, monthlyRequests |-> 100, bulkAnalysis |-> FALSE,
   maxFileSize |-> 5, maxBatchSize |-> 1,
   features |-> {"basic_analysis", "industry_detection", "ats_check"}]

PremiumLimits ==
  [dailyRequests |-> 100, monthlyRequests |-> 2000, bulkAnalysis |-> TRUE,
   maxFileSize |-> 10, maxBatchSize |-> 5,
   features |-> {"basic_analysis", "industry_detection", "ats_check",
                 "detailed_feedback", "export_results"}]

EnterpriseLimits ==
  [dailyRequests |-> 1000, monthlyRequests |-> 20000, bulkAnalysis |-> TRUE,
   maxFileSize |-> 50, maxBatchSize |-> 20,
   features |-> {"basic_analysis", "industry_detection", "ats_check",
                 "detailed_feedback", "export_results", "api_access",
                 "priority_support"}]

getTierLimits(tier) ==
  CASE tier = "free" -> FreeLimits
    [] tier = "premium" -> PremiumLimits
    [] tier = "enterprise" -> EnterpriseLimits
    [] OTHER -> FreeLimits

\* userInfo.tier || 'free'
TierOrFree(tier) == IF tier = NoTier THEN "free" ELSE tier

(***************************************************************************)
(* createAPIKey: the key record and the user record it stores.             *)
(***************************************************************************)
NewKeyData(apiKey, userId, tier, date) ==
  [key |-> apiKey, userId |-> userId, tier |-> TierOrFree(tier),
   createdAt |-> date, lastUsed |-> NullDate, isActive |-> TRUE,
   limits |-> getTierLimits(TierOrFree(tier)),
   usage |-> [totalRequests |-> 0, dailyRequests |-> 0, monthlyRequests |-> 0,
              lastResetDate |-> date]]

NewUserData(keyData) ==
  [userId |-> keyData.userId, tier |-> keyData.tier, apiKeys |-> <<keyData.key>>,
   createdAt |-> keyData.createdAt, isActive |-> TRUE]

\* obj[k] = v on a JavaScript object: add or overwrite
Put(f, k, v) == (k :> v) @@ f

\* delete obj[k]
Remove(f, k) == [x \in DOMAIN f \ {k} |-> f[x]]

\* createAPIKey(userInfo), with the key drawn by generateAPIKey and the id
\* `user_${Date.now()}` used when userInfo.userId is absent
NoUser == "undefined"

createAPIKey(keys, usrs, apiKey, userInfo, generatedId, date) ==
  LET userId == IF userInfo.userId = NoUser THEN generatedId ELSE userInfo.userId
      keyData == NewKeyData(apiKey, userId, userInfo.tier, date)
  IN  [keys |-> Put(keys, apiKey, keyData),
       users |-> Put(usrs, userId, NewUserData(keyData)),
       userId |-> userId, tier |-> keyData.tier, limits |-> keyData.limits]

(***************************************************************************)
(* validateAPIKey(apiKey).  `today` is the date read at line 188 and       *)
(* `currentMonth` the month read at line 205 (two reads of the clock).     *)
(* The result is the store after the call and the object returned.         *)
(***************************************************************************)
Invalid(error) == [valid |-> FALSE, error |-> error]
Valid == [valid |-> TRUE, error |-> ""]

\* a bug: the daily comparison made strict
DailyExceededStrict(usage, limits) == usage.dailyRequests > limits.dailyRequests

DailyExceeded(usage, limits) == usage.dailyRequests >= limits.dailyRequests

MonthlyExceeded(usage, limits) == usage.monthlyRequests >= limits.monthlyRequests

\* lines 188-193: reset the daily counter when the stored date is not today
ResetDaily(usage, today) ==
  IF usage.lastResetDate # today
    THEN [usage EXCEPT !.dailyRequests = 0, !.lastResetDate = today]
    ELSE usage

\* lines 205-211: reset the monthly counter when the month of the stored
\* reset date (already overwritten by ResetDaily) is not the current month
ResetMonthly(usage, currentMonth) ==
  IF currentMonth # MonthOf(usage.lastResetDate)
    THEN [usage EXCEPT !.monthlyRequests = 0]
    ELSE usage

\* a bug: the monthly limit checked before the daily one
validateAPIKeyMonthlyFirst(keys, apiKey, today, currentMonth) ==
  IF apiKey \notin DOMAIN keys
    THEN [keys |-> keys, result |-> Invalid("Invalid API key")]
  ELSE IF ~keys[apiKey].isActive
    THEN [keys |-> keys, result |-> Invalid("API key is inactive")]
  ELSE
    LET kd == keys[apiKey]
        u2 == ResetMonthly(ResetDaily(kd.usage, today), currentMonth)
    IN  IF MonthlyExceeded(u2, kd.limits)
          THEN [keys |-> [keys EXCEPT ![apiKey].usage = u2],
                result |-> Invalid("Monthly request limit exceeded")]
        ELSE IF DailyExceeded(u2, kd.limits)
          THEN [keys |-> [keys EXCEPT ![apiKey].usage = u2],
                result |-> Invalid("Daily request limit exceeded")]
        ELSE [keys |-> [keys EXCEPT ![apiKey].usage = u2], result |-> Valid]

validateAPIKey(keys, apiKey, today, currentMonth) ==
  IF apiKey \notin DOMAIN keys
    THEN [keys |-> keys, result |-> Invalid("Invalid API key")]
  ELSE IF ~keys[apiKey].isActive
    THEN [keys |-> keys, result |-> Invalid("API key is inactive")]
  ELSE
    LET kd == keys[apiKey]
        u1 == ResetDaily(kd.usage, today)
        u2 == ResetMonthly(u1, currentMonth)
    IN  IF DailyExceeded(u1, kd.limits)
          THEN [keys |-> [keys EXCEPT ![apiKey].usage = u1],
                result |-> Invalid("Daily request limit exceeded")]
        ELSE IF MonthlyExceeded(u2, kd.limits)
          THEN [keys |-> [keys EXCEPT ![apiKey].usage = u2],
                result |-> Invalid("Monthly request limit exceeded")]
        ELSE [keys |-> [keys EXCEPT ![apiKey].usage = u2], result |-> Valid]

(***************************************************************************)
(* recordUsage(apiKey): the three counters and lastUsed; the save is       *)
(* deferred with setImmediate.                                             *)
(***************************************************************************)
recordUsage(keys, apiKey, date) ==
  IF apiKey \notin DOMAIN keys
    THEN [keys |-> keys, ok |-> FALSE]
    ELSE [keys |-> [keys EXCEPT
                      ![apiKey].usage.totalRequests = @ + 1,
                      ![apiKey].usage.dailyRequests = @ + 1,
                      ![apiKey].usage.monthlyRequests = @ + 1,
                      ![apiKey].lastUsed = date],
          ok |-> TRUE]

(***************************************************************************)
(* updateAPIKeyStatus(apiKey, isActive)                                    *)
(***************************************************************************)
updateAPIKeyStatus(keys, apiKey, isActive) ==
  IF apiKey \notin DOMAIN keys
    THEN [keys |-> keys, ok |-> FALSE]
    ELSE [keys |-> [keys EXCEPT ![apiKey].isActive = isActive], ok |-> TRUE]

(***************************************************************************)
(* updateTier(apiKey, newTier): the key's tier and limits, the user's tier *)
(***************************************************************************)
\* a bug: the tier changed without recomputing the limits
updateTierStaleLimits(keys, usrs, apiKey, newTier) ==
  IF apiKey \notin DOMAIN keys \/ keys[apiKey].userId \notin DOMAIN usrs
    THEN [keys |-> keys, users |-> usrs, ok |-> FALSE]
    ELSE [keys |-> [keys EXCEPT ![apiKey].tier = newTier],
          users |-> [usrs EXCEPT ![keys[apiKey].userId].tier = newTier],
          ok |-> TRUE]

\* a bug: the tier not propagated to the owning user
updateTierKeyOnly(keys, usrs, apiKey, newTier) ==
  IF apiKey \notin DOMAIN keys \/ keys[apiKey].userId \notin DOMAIN usrs
    THEN [keys |-> keys, users |-> usrs, ok |-> FALSE]
    ELSE [keys |-> [keys EXCEPT ![apiKey].tier = newTier,
                                ![apiKey].limits = getTierLimits(newTier)],
          users |-> usrs,
          ok |-> TRUE]

updateTier(keys, usrs, apiKey, newTier) ==
  IF apiKey \notin DOMAIN keys
    THEN [keys |-> keys, users |-> usrs, ok |-> FALSE]
  ELSE IF keys[apiKey].userId \notin DOMAIN usrs
    THEN [keys |-> keys, users |-> usrs, ok |-> FALSE]
  ELSE [keys |-> [keys EXCEPT ![apiKey].tier = newTier,
                              ![apiKey].limits = getTierLimits(newTier)],
        users |-> [usrs EXCEPT ![keys[apiKey].userId].tier = newTier],
        ok |-> TRUE]

(***************************************************************************)
(* cleanup(): delete the inactive keys last used (or, never used, created) *)
(* before the date six months ago.                                         *)
(***************************************************************************)
CleanupMonths == 6

CutoffDate(date) == [month |-> date.month - CleanupMonths, day |-> date.day]

LastTouched(keyData) ==
  IF keyData.lastUsed # NullDate THEN keyData.lastUsed ELSE keyData.createdAt

Expired(keys, date) ==
  {k \in DOMAIN keys :
     ~keys[k].isActive /\ Before(LastTouched(keys[k]), CutoffDate(date))}

cleanup(keys, date) ==
  [keys |-> [k \in DOMAIN keys \ Expired(keys, date) |-> keys[k]],
   cleanedCount |-> Cardinality(Expired(keys, date))]

(***************************************************************************)
(* The calls of the key manager as steps of the server.  A callback queued *)
(* with setImmediate runs in the check phase of the same turn of the event *)
(* loop, before the next request is handled: no other call is taken while  *)
(* one is queued.                                                          *)
(***************************************************************************)
Ret(op, key, arg, valid, error, n) ==
  [op |-> op, key |-> key, arg |-> arg, valid |-> valid, error |-> error, n |-> n]

NoCall == Ret("none", NoKey, "", TRUE, "", 0)

Idle == savePending = 0

\* the wall clock reaches a later date t of the calendar
Tick(t) ==
  /\ t > clock
  /\ t <= Len(Calendar)
  /\ clock' = t
  /\ okToday' = [k \in KeyIds |-> 0]
  /\ ret' = NoCall
  /\ UNCHANGED <<apiKeys, users, keysFile, usersFile, savePending, calls, pending>>
  /\ UNCHANGED httpVars

\* createAPIKey with a key not in the store (32 random bytes)
CreateAPIKeyCall(k, userInfo, generatedId) ==
  /\ Idle
  /\ k \notin DOMAIN apiKeys
  /\ LET out == createAPIKey(apiKeys, users, k, userInfo, generatedId, Today)
     IN  /\ apiKeys' = out.keys
         /\ users' = out.users
         /\ keysFile' = out.keys
         /\ usersFile' = out.users
         /\ ret' = Ret("createAPIKey", k, userInfo.tier, TRUE, "", 0)
  /\ okToday' = [okToday EXCEPT ![k] = 0]
  /\ UNCHANGED <<clock, savePending, calls, pending>>

CreateAPIKey(k, userInfo, generatedId) ==
  /\ CreateAPIKeyCall(k, userInfo, generatedId)
  /\ UNCHANGED httpVars

\* does validateAPIKey(k) get to its second read of the clock (line 205)?
ReadsClockTwice(k) ==
  /\ k \in DOMAIN apiKeys
  /\ apiKeys[k].isActive
  /\ ~DailyExceeded(ResetDaily(apiKeys[k].usage, Today), apiKeys[k].limits)

\* validateAPIKey(k).  t2 is the clock at the second read: the date may
\* change between the two reads.  `paired` tells whether the caller goes on
\* to recordUsage (the analyze request) or not.
ValidateAPIKey(k, paired, t2) ==
  /\ Idle
  /\ pending = NoKey
  /\ t2 = clock \/ (t2 = clock + 1 /\ t2 <= Len(Calendar) /\ ReadsClockTwice(k))
  /\ LET out == validateAPIKey(apiKeys, k, Today, MonthOf(Calendar[t2]))
     IN  /\ apiKeys' = out.keys
         /\ clock' = t2
         /\ ret' = Ret("validateAPIKey", k, "", out.result.valid, out.result.error, 0)
         /\ pending' = IF paired /\ out.result.valid THEN k ELSE NoKey
         /\ okToday' =
              IF t2 # clock THEN [x \in KeyIds |-> 0]
              ELSE IF paired /\ out.result.valid THEN [okToday EXCEPT ![k] = @ + 1]
              ELSE okToday
  /\ UNCHANGED <<users, keysFile, usersFile, savePending, calls>>
  /\ UNCHANGED httpVars

\* recordUsage(k) and the setImmediate it queues
RecordUsageCall(k, cap) ==
  /\ Idle
  /\ calls < cap
  /\ LET out == recordUsage(apiKeys, k, Today)
     IN  /\ apiKeys' = out.keys
         /\ savePending' =
              IF out.ok /\ savePending < MaxPendingSaves
                THEN savePending + 1 ELSE savePending
         /\ ret' = Ret("recordUsage", k, "", out.ok, "", 0)
  /\ calls' = calls + 1
  /\ UNCHANGED <<clock, users, keysFile, usersFile, okToday>>

\* the request that passed validation records its usage
RecordUsagePaired ==
  /\ pending # NoKey
  /\ RecordUsageCall(pending, MaxRecords)
  /\ pending' = NoKey
  /\ UNCHANGED httpVars

\* recordUsage called directly
RecordUsageDirect(k) ==
  /\ pending = NoKey
  /\ RecordUsageCall(k, MaxUses)
  /\ pending' = pending
  /\ UNCHANGED httpVars

\* the setImmediate callback of recordUsage: saveAPIKeys()
RunSave ==
  /\ savePending > 0
  /\ savePending' = savePending - 1
  /\ keysFile' = apiKeys
  /\ UNCHANGED <<clock, apiKeys, users, usersFile, calls, pending, okToday, ret>>
  /\ UNCHANGED httpVars

UpdateAPIKeyStatus(k, isActive) ==
  /\ Idle
  /\ LET out == updateAPIKeyStatus(apiKeys, k, isActive)
     IN  /\ apiKeys' = out.keys
         /\ keysFile' = IF out.ok THEN out.keys ELSE keysFile
         /\ ret' = Ret("updateAPIKeyStatus", k, IF isActive THEN "true" ELSE "false", out.ok, "", 0)
  /\ UNCHANGED <<clock, users, usersFile, savePending, calls, pending, okToday>>
  /\ UNCHANGED httpVars

UpdateTierCall(k, newTier) ==
  /\ Idle
  /\ LET out == updateTier(apiKeys, users, k, newTier)
     IN  /\ apiKeys' = out.keys
         /\ users' = out.users
         /\ keysFile' = IF out.ok THEN out.keys ELSE keysFile
         /\ usersFile' = IF out.ok THEN out.users ELSE usersFile
         /\ ret' = Ret("updateTier", k, newTier, out.ok, "", 0)
  /\ UNCHANGED <<clock, savePending, calls, pending, okToday>>

UpdateTier(k, newTier) ==
  /\ UpdateTierCall(k, newTier)
  /\ UNCHANGED httpVars

Cleanup ==
  /\ Idle
  /\ LET out == cleanup(apiKeys, Today)
     IN  /\ apiKeys' = out.keys
         /\ keysFile' = IF out.cleanedCount > 0 THEN out.keys ELSE keysFile
         /\ ret' = Ret("cleanup", NoKey, "", TRUE, "", out.cleanedCount)
  /\ UNCHANGED <<clock, users, usersFile, savePending, calls, pending, okToday>>
  /\ UNCHANGED httpVars

\* the state after construction on a fresh install: initializeFiles writes
\* the two empty stores and the constructor loads them
EmptyStore == [k \in {} |-> 0]

InitKeys ==
  /\ clock = 1
  /\ apiKeys = EmptyStore
  /\ users = EmptyStore
  /\ keysFile = EmptyStore
  /\ usersFile = EmptyStore
  /\ savePending = 0
  /\ calls = 0
  /\ pending = NoKey
  /\ okToday = [k \in KeyIds |-> 0]
  /\ ret = NoCall

(***************************************************************************)
(* The HTTP layer at start-up: no request in flight, nothing sent, an      *)
(* empty memory cache.  redisClient is null unless REDIS_URL is set and the *)
(* connection succeeded; the data of the Redis server is then empty.       *)
(***************************************************************************)
MaxInFlight == 2       \* analyze requests in flight at a time

Slots == 1 .. MaxInFlight

\* an uploaded file: its name as <<stem, extension>>, the MIME type the
\* client declared, its size and the text its content holds
NoFile == [originalname |-> <<"", "">>, mimetype |-> "", sizeMB |-> 0, text |-> ""]

Texts == {"T1", "T2"}

NoTime == -1

FreeSlot == [pc |-> "free", apiKey |-> NoKey, file |-> NoFile]

NoResponse == [route |-> "none", status |-> 0, error |-> "", cached |-> FALSE]

NoCacheCall == [op |-> "none", seq |-> 0]

NoAnalyzerCall == [op |-> "none"]

MaxJobs == 3

\* the ids the queue has room for
JobIds == DOMAIN jobs

NoJob == [state |-> "none"]

NoSlot == 0

\* the default admin-config.json: one admin, never logged in
DefaultAdminConfig == [lastLogin |-> NullDate, maintenanceMode |-> FALSE]

(***************************************************************************)
(* The usage tracker (services/usageTracker.js).  Of its counters the      *)
(* model keeps the five totals and the requests per hour of the day; the   *)
(* lists of scores, times and sizes, the per-key and per-day tallies and   *)
(* the usage.log file are left out.                                        *)
(***************************************************************************)
HoursOfDay == 0 .. 23

\* the counters the constructor starts with
FreshCounters ==
  [totalRequests |-> 0, successfulAnalyses |-> 0, failedAnalyses |-> 0,
   cacheHits |-> 0, cacheMisses |-> 0, hourlyStats |-> [h \in HoursOfDay |-> 0]]

\* no analytics.json on disk
NoAnalytics == [exists |-> FALSE]

EventTypes ==
  {"analysis_request", "analysis_success", "analysis_failure", "cache_hit",
   "cache_miss", "api_key_invalid", "api_key_created", "tier_upgraded"}

updateCounters(c, eventType, hour) ==
  CASE eventType = "analysis_request" ->
         [c EXCEPT !.totalRequests = @ + 1, !.hourlyStats[hour] = @ + 1]
    [] eventType = "analysis_success" -> [c EXCEPT !.successfulAnalyses = @ + 1]
    [] eventType = "analysis_failure" -> [c EXCEPT !.failedAnalyses = @ + 1]
    [] eventType = "cache_hit" -> [c EXCEPT !.cacheHits = @ + 1]
    [] eventType = "cache_miss" -> [c EXCEPT !.cacheMisses = @ + 1]
    [] OTHER -> c

\* logUsage(eventType, data) at the given hour of the day
logUsage(c, eventType, hour) == updateCounters(c, eventType, hour)

\* { ...a, ...b }: the fields of b override those of a
spread(a, b) ==
  [f \in DOMAIN a \cup DOMAIN b |-> IF f \in DOMAIN b THEN b[f] ELSE a[f]]

\* loadAnalytics() on the counters in memory
loadAnalytics(c, file) ==
  IF file = NoAnalytics THEN c ELSE spread(file.counters, c)

\* what saveAnalytics() writes
saveAnalytics(c) == [exists |-> TRUE, counters |-> c]

\* the server after start-up, with a queue that has room for these job ids
InitHttpOf(jobIds) ==
  /\ reqs = [s \in Slots |-> FreeSlot]
  /\ resp = NoResponse
  /\ memoryCache = EmptyStore
  /\ redis \in [client : {"null", "open"}, data : {EmptyStore}]
  /\ uptime = 0
  /\ analysedAt = [t \in Texts |-> NoTime]
  /\ cacheRet = NoCacheCall
  /\ anIn = NoAnalyzerCall
  /\ anOut = NoAnalyzerCall
  /\ jobs = [j \in jobIds |-> NoJob]
  /\ paused = FALSE
  /\ tempFiles = {}
  /\ adminConfig = DefaultAdminConfig
  /\ backups = {}
  /\ counters = FreshCounters
  /\ analyticsFile = NoAnalytics

InitHttp == InitHttpOf(1 .. MaxJobs)

\* a fresh install started without REDIS_URL
InitServer == InitKeys /\ InitHttp /\ redis.client = "null"

(***************************************************************************)
(* SpecQuota: one key in use by requests that validate and then record,    *)
(* one after the other, over the first three dates of the calendar.        *)
(***************************************************************************)
QuotaKey == "k1"
QuotaLastClock == 3

NextQuota ==
  \/ (clock < QuotaLastClock /\ Tick(clock + 1))
  \/ \E tier \in {"free", NoTier} :
       CreateAPIKey(QuotaKey, [userId |-> NoUser, tier |-> tier], "u1")
  \/ \E k \in KeyIds, t2 \in {clock, clock + 1} :
       t2 <= QuotaLastClock /\ ValidateAPIKey(k, TRUE, t2)
  \/ RecordUsagePaired
  \/ RunSave
  \/ \E isActive \in BOOLEAN : UpdateAPIKeyStatus(QuotaKey, isActive)

\* The stores loaded by the constructor when the server starts again on the
\* first date of the calendar: a free key issued on the first of the month
\* that made ten requests on each of nine days and nine more today.
PersistedKey ==
  [key |-> QuotaKey, userId |-> "u1", tier |-> "free",
   createdAt |-> [month |-> 1, day |-> 1], lastUsed |-> Calendar[1],
   isActive |-> TRUE, limits |-> getTierLimits("free"),
   usage |-> [totalRequests |-> 99, dailyRequests |-> 9, monthlyRequests |-> 99,
              lastResetDate |-> Calendar[1]]]

PersistedKeys == (QuotaKey :> PersistedKey)

PersistedUsers == ("u1" :> NewUserData(PersistedKey))

InitQuota ==
  /\ clock = 1
  /\ \/ /\ apiKeys = EmptyStore
        /\ users = EmptyStore
        /\ okToday = [k \in KeyIds |-> 0]
     \/ /\ apiKeys = PersistedKeys
        /\ users = PersistedUsers
        /\ okToday = [k \in KeyIds |->
                        IF k = QuotaKey THEN PersistedKey.usage.dailyRequests ELSE 0]
  /\ keysFile = apiKeys
  /\ usersFile = users
  /\ savePending = 0
  /\ calls = 0
  /\ pending = NoKey
  /\ ret = NoCall

\* the persisted or empty key store behind a server without Redis
InitQuotaServer == InitQuota /\ InitHttp /\ redis.client = "null"

SpecQuota ==
  InitQuotaServer /\ [][NextQuota]_vars

\* the last call was validateAPIKey(k)
Validated(k) == ret.op = "validateAPIKey" /\ ret.key = k

C2_MonthlyReset ==
  \A k \in DOMAIN apiKeys :
    (Validated(k) /\ apiKeys[k].isActive
       /\ MonthOf(apiKeys[k].lastUsed) # MonthOf(Today)) =>
      apiKeys[k].usage.monthlyRequests = 0

\* C6: what validateAPIKey returns, read off the store before the call and
\* the counters after its date-based reset: 'Invalid API key' for a key not
\* stored, 'API key is inactive' for an inactive key whatever its counters,
\* 'Daily request limit exceeded' when the daily counter has reached the
\* limit, 'Monthly request limit exceeded' when (only) the monthly one has,
\* and valid exactly when none of these applies.
C6_Expected(k) ==
  IF k \notin DOMAIN apiKeys THEN Invalid("Invalid API key")
  ELSE IF ~apiKeys[k].isActive THEN Invalid("API key is inactive")
  ELSE IF apiKeys'[k].usage.dailyRequests >= apiKeys[k].limits.dailyRequests
    THEN Invalid("Daily request limit exceeded")
  ELSE IF apiKeys'[k].usage.monthlyRequests >= apiKeys[k].limits.monthlyRequests
    THEN Invalid("Monthly request limit exceeded")
  ELSE Valid

C6_ValidateResult ==
  [][\A k \in KeyIds :
       (ret'.op = "validateAPIKey" /\ ret'.key = k) =>
         /\ [valid |-> ret'.valid, error |-> ret'.error] = C6_Expected(k)
         /\ (k \notin DOMAIN apiKeys \/ ~apiKeys[k].isActive) => apiKeys' = apiKeys]_vars

\* C6 witness: a key under its daily limit is refused for its monthly limit.
C6_Witness ==
  /\ Validated(QuotaKey)
  /\ ret.error = "Monthly request limit exceeded"
  /\ apiKeys[QuotaKey].usage.dailyRequests < apiKeys[QuotaKey].limits.dailyRequests

(***************************************************************************)
(* SpecKeys: every call of the key manager, in any order, on one key that  *)
(* is created, used, deactivated and swept, and on a key that is never     *)
(* issued; today and more than six months later.                           *)
(***************************************************************************)
NextKeys ==
  \/ Tick(Len(Calendar))
  \/ \E userInfo \in [userId : UserIds, tier : TierInputs] :
       CreateAPIKey(QuotaKey, userInfo, userInfo.userId)
  \/ \E k \in KeyIds : ValidateAPIKey(k, FALSE, clock)
  \/ \E k \in KeyIds : RecordUsageDirect(k)
  \/ RunSave
  \/ \E k \in KeyIds, isActive \in BOOLEAN : UpdateAPIKeyStatus(k, isActive)
  \/ \E k \in KeyIds, newTier \in ValidTiers \cup {"gold"} : UpdateTier(k, newTier)
  \/ Cleanup

SpecKeys ==
  InitServer /\ [][NextKeys]_vars

\* C4: every key record, in memory and in the keys file, carries the limits
\* of the tier table for its tier.
C4_LimitsFollowTier ==
  /\ \A k \in DOMAIN apiKeys : apiKeys[k].limits = getTierLimits(apiKeys[k].tier)
  /\ \A k \in DOMAIN keysFile : keysFile[k].limits = getTierLimits(keysFile[k].tier)

\* C4 witness: a key that was issued on the free tier and used has been moved
\* to the enterprise tier.
C4_Witness ==
  /\ ret.op = "updateTier" /\ ret.valid
  /\ QuotaKey \in DOMAIN apiKeys
  /\ apiKeys[QuotaKey].tier = "enterprise"
  /\ apiKeys[QuotaKey].limits.dailyRequests = 1000
  /\ apiKeys[QuotaKey].usage.totalRequests > 0

(***************************************************************************)
(* SpecTier: two keys and two users; keys are issued, used, switched on    *)
(* and off and moved between tiers, in any order.                          *)
(***************************************************************************)
NextTier ==
  \/ \E k \in KeyIds, userInfo \in [userId : UserIds \cup {NoUser}, tier : TierInputs],
        g \in UserIds :
       CreateAPIKey(k, userInfo, g)
  \/ \E k \in KeyIds : RecordUsageDirect(k)
  \/ RunSave
  \/ \E k \in KeyIds, isActive \in BOOLEAN : UpdateAPIKeyStatus(k, isActive)
  \/ \E k \in KeyIds, newTier \in ValidTiers \cup {"gold"} : UpdateTier(k, newTier)

SpecTier ==
  InitServer /\ [][NextTier]_vars

\* the entry of the tier table (lines 145-170) for a tier it lists
TableEntry(tier) ==
  CASE tier = "free" ->
         [dailyRequests |-> 10, monthlyRequests |-> 100, maxBatchSize |-> 1]
    [] tier = "premium" ->
         [dailyRequests |-> 100, monthlyRequests |-> 2000, maxBatchSize |-> 5]
    [] tier = "enterprise" ->
         [dailyRequests |-> 1000, monthlyRequests |-> 20000, maxBatchSize |-> 20]

\* C7: a step updateTier(k, newTier), newTier a tier of the table.  On a
\* stored key it returns true, sets the key's tier and the owning user's tier
\* to newTier and the key's limits to the table entry, and leaves the key's
\* usage, its isActive flag, its other fields, every other key record and
\* every other user unchanged; on a key not stored it returns false and
\* changes neither store nor file.
C7_UpdateTierEffect ==
  [][\A k \in KeyIds, newTier \in ValidTiers :
       (ret'.op = "updateTier" /\ ret'.key = k /\ ret'.arg = newTier) =>
         IF k \in DOMAIN apiKeys
           THEN LET u == apiKeys[k].userId IN
                /\ ret'.valid
                /\ DOMAIN apiKeys' = DOMAIN apiKeys
                /\ apiKeys'[k].tier = newTier
                /\ apiKeys'[k].limits.dailyRequests = TableEntry(newTier).dailyRequests
                /\ apiKeys'[k].limits.monthlyRequests = TableEntry(newTier).monthlyRequests
                /\ apiKeys'[k].limits.maxBatchSize = TableEntry(newTier).maxBatchSize
                /\ apiKeys'[k] = [apiKeys[k] EXCEPT !.tier = newTier,
                                                    !.limits = apiKeys'[k].limits]
                /\ \A o \in DOMAIN apiKeys \ {k} : apiKeys'[o] = apiKeys[o]
                /\ users' = [users EXCEPT ![u].tier = newTier]
           ELSE /\ ~ret'.valid
                /\ apiKeys' = apiKeys /\ users' = users
                /\ keysFile' = keysFile /\ usersFile' = usersFile]_vars

\* C7 witness: a used, inactive key was moved to premium while
\* another key of the same user stays on its tier.
C7_Witness ==
  /\ ret.op = "updateTier" /\ ret.valid /\ ret.key = "k1" /\ ret.arg = "premium"
  /\ DOMAIN apiKeys = KeyIds
  /\ apiKeys["k1"].tier = "premium" /\ apiKeys["k2"].tier = "free"
  /\ apiKeys["k1"].usage.totalRequests > 0 /\ ~apiKeys["k1"].isActive
  /\ users[apiKeys["k1"].userId].tier = "premium"

\* C7, second case: updateTier on a key that is not stored returned false.
C7_WitnessUnknown ==
  /\ ret.op = "updateTier" /\ ~ret.valid /\ ret.key \notin DOMAIN apiKeys
  /\ apiKeys # EmptyStore

(***************************************************************************)
(* The HTTP layer (server/index.js).  A response is the status and the     *)
(* `error` field of the JSON body; `cached` is its `cached` field.         *)
(***************************************************************************)
Response(route, status, error, cached) ==
  [route |-> route, status |-> status, error |-> error, cached |-> cached]

KeysCreate == "POST /api/keys/create"
KeysUpgrade == "POST /api/keys/:apiKey/upgrade"
AdminKeysCreate == "POST /api/admin/keys/create"
AdminKeysTier == "PUT /api/admin/keys/:apiKey/tier"
AnalyzeResume == "POST /api/analyze-resume"
CacheFlush == "POST /api/cache/flush"

\* the limiter mounted in front of a route and the message it answers with
RateLimitMessage(route) ==
  CASE route = AnalyzeResume -> "Too many analysis requests. Please try again later."
    [] route \in {KeysCreate, KeysUpgrade} ->
         "Too many API key requests. Please try again later."
    [] OTHER -> "Too many API requests. Please try again later."

\* express-rate-limit: a client that has used up its window is answered 429
\* before any handler runs
RateLimit(route) ==
  /\ Idle
  /\ resp' = Response(route, 429, RateLimitMessage(route), FALSE)
  /\ UNCHANGED <<keyVars, reqs, memoryCache, redis, uptime, analysedAt>>
  /\ UNCHANGED backVars

\* the validateAPIKey middleware on the x-api-key header (NoKey: no header):
\* the store after it, whether next() is called, and the response if not
validateAPIKeyMiddleware(keys, header, today, currentMonth) ==
  IF header = NoKey
    THEN [keys |-> keys, next |-> FALSE, status |-> 401, error |-> "API key required"]
    ELSE LET v == validateAPIKey(keys, header, today, currentMonth)
         IN  [keys |-> v.keys, next |-> v.result.valid,
              status |-> IF v.result.valid THEN 0 ELSE 401,
              error |-> v.result.error]

\* POST /api/keys/create; body.name and body.email tell whether the field
\* is present
HttpKeysCreate(k, body, generatedId) ==
  /\ IF ~body.name \/ ~body.email
       THEN /\ Idle
            /\ resp' = Response(KeysCreate, 400, "Name and email are required", FALSE)
            /\ UNCHANGED keyVars
       ELSE /\ CreateAPIKeyCall(k, [userId |-> NoUser, tier |-> TierOrFree(body.tier)],
                                generatedId)
            /\ resp' = Response(KeysCreate, 200, "", FALSE)
  /\ UNCHANGED <<reqs, memoryCache, redis, uptime, analysedAt>>
  /\ UNCHANGED backVars

\* POST /api/keys/:apiKey/upgrade: the key is the one of the header
HttpKeysUpgrade(header, tier) ==
  /\ Idle
  /\ LET auth == validateAPIKeyMiddleware(apiKeys, header, Today, MonthOf(Today))
         out == updateTier(auth.keys, users, header, tier)
     IN  IF ~auth.next
           THEN /\ apiKeys' = auth.keys
                /\ resp' = Response(KeysUpgrade, auth.status, auth.error, FALSE)
                /\ ret' = Ret("validateAPIKey", header, "", FALSE, auth.error, 0)
                /\ UNCHANGED <<users, keysFile, usersFile>>
           ELSE IF tier \notin {"free", "premium", "enterprise"}
             THEN /\ apiKeys' = auth.keys
                  /\ resp' = Response(KeysUpgrade, 400, "Invalid tier", FALSE)
                  /\ ret' = Ret("validateAPIKey", header, "", TRUE, "", 0)
                  /\ UNCHANGED <<users, keysFile, usersFile>>
             ELSE /\ apiKeys' = out.keys
                  /\ users' = out.users
                  /\ keysFile' = IF out.ok THEN out.keys ELSE keysFile
                  /\ usersFile' = IF out.ok THEN out.users ELSE usersFile
                  /\ ret' = Ret("updateTier", header, tier, out.ok, "", 0)
                  /\ resp' = IF out.ok
                               THEN Response(KeysUpgrade, 200, "", FALSE)
                               ELSE Response(KeysUpgrade, 400, "Failed to upgrade tier", FALSE)
  /\ UNCHANGED <<clock, savePending, calls, pending, okToday>>
  /\ UNCHANGED <<reqs, memoryCache, redis, uptime, analysedAt>>
  /\ UNCHANGED backVars

\* POST /api/admin/keys/create: createAPIKeyForUser passes the body on
HttpAdminKeysCreate(k, body, generatedId) ==
  /\ CreateAPIKeyCall(k, body, generatedId)
  /\ resp' = Response(AdminKeysCreate, 200, "", FALSE)
  /\ UNCHANGED <<reqs, memoryCache, redis, uptime, analysedAt>>
  /\ UNCHANGED backVars

\* PUT /api/admin/keys/:apiKey/tier: updateAPIKeyTier answers 200 with
\* success false and an error when it refuses
HttpAdminKeysTier(k, tier) ==
  /\ IF tier = NoTier
       THEN /\ Idle
            /\ resp' = Response(AdminKeysTier, 200, "Missing required parameters", FALSE)
            /\ UNCHANGED keyVars
       ELSE IF tier \notin {"free", "premium", "enterprise"}
         THEN /\ Idle
              /\ resp' = Response(AdminKeysTier, 200, "Invalid tier", FALSE)
              /\ UNCHANGED keyVars
         ELSE /\ UpdateTierCall(k, tier)
              /\ resp' = IF ret'.valid
                           THEN Response(AdminKeysTier, 200, "", FALSE)
                           ELSE Response(AdminKeysTier, 200, "Failed to update API key tier", FALSE)
  /\ UNCHANGED <<reqs, memoryCache, redis, uptime, analysedAt>>
  /\ UNCHANGED backVars

(***************************************************************************)
(* SpecApi: the key store driven through its HTTP endpoints only.          *)
(***************************************************************************)
KeysCreateBodies == [name : BOOLEAN, email : BOOLEAN, tier : TierInputs]

AdminCreateBodies == [userId : UserIds \cup {NoUser}, tier : TierInputs]

NextApi ==
  \/ \E route \in {KeysCreate, KeysUpgrade} : RateLimit(route)
  \/ \E k \in KeyIds, body \in KeysCreateBodies, g \in UserIds :
       HttpKeysCreate(k, body, g)
  \/ \E header \in KeyIds \cup {NoKey}, tier \in TierInputs :
       HttpKeysUpgrade(header, tier)
  \/ \E k \in KeyIds, body \in AdminCreateBodies, g \in UserIds :
       HttpAdminKeysCreate(k, body, g)
  \/ \E k \in KeyIds, tier \in TierInputs : HttpAdminKeysTier(k, tier)

SpecApi == InitServer /\ [][NextApi]_vars

\* C5: every key record and every user record reachable through the HTTP
\* endpoints has a tier that is one of free, premium, enterprise.
C5_TierIsKnown ==
  /\ \A k \in DOMAIN apiKeys : apiKeys[k].tier \in ValidTiers
  /\ \A u \in DOMAIN users : users[u].tier \in ValidTiers

(***************************************************************************)
(* The upload filter: FileOptimizer.validateFile, called by multer's       *)
(* fileFilter before the file is stored (file.size is then undefined) and  *)
(* again by optimizeFile on the stored file.                               *)
(***************************************************************************)
MaxFileSizeMB == 5

UndefinedSize == -1

supportedFormats == {"pdf", "doc", "docx"}

allowedMimeTypes ==
  {"application/pdf", "application/msword",
   "application/vnd.openxmlformats-officedocument.wordprocessingml.document"}

\* String.prototype.toLowerCase on the extensions that occur
toLowerCase(str) ==
  CASE str = "PDF" -> "pdf"
    [] str = "DOCX" -> "docx"
    [] str = "TXT" -> "txt"
    [] OTHER -> str

\* path.extname(originalname).toLowerCase().slice(1)
fileExtension(file) == toLowerCase(file.originalname[2])

SizeError == "File size exceeds maximum allowed size (5MB)"
TypeError == "File type is not supported. Allowed types: pdf, doc, docx"
MimeError == "MIME type is not supported"

validateFile(file) ==
  LET errors ==
        (IF file.sizeMB # UndefinedSize /\ file.sizeMB > MaxFileSizeMB
           THEN <<SizeError>> ELSE <<>>)
        \o (IF fileExtension(file) \notin supportedFormats THEN <<TypeError>> ELSE <<>>)
        \o (IF file.mimetype \notin allowedMimeTypes THEN <<MimeError>> ELSE <<>>)
  IN  [isValid |-> Len(errors) = 0, errors |-> errors]

\* errors.join(sep)
RECURSIVE join(_, _)
join(errors, sep) ==
  IF Len(errors) = 0 THEN ""
  ELSE IF Len(errors) = 1 THEN errors[1]
  ELSE errors[1] \o sep \o join(Tail(errors), sep)

\* what multer's fileFilter sees: the file without its size
fileFilter(file) == validateFile([file EXCEPT !.sizeMB = UndefinedSize])

\* extractTextFromFile fails on a file whose content cannot be parsed
Unreadable == "unreadable"

Pdf == "application/pdf"
Docx == "application/vnd.openxmlformats-officedocument.wordprocessingml.document"

Upload(stem, ext, mimetype, sizeMB, text) ==
  [originalname |-> <<stem, ext>>, mimetype |-> mimetype, sizeMB |-> sizeMB,
   text |-> text]

\* the files a client sends: two names for one content, a second content,
\* a wrong extension with a wrong MIME type, a wrong MIME type alone, a
\* wrong extension alone, a file over the size limit and a broken file
GoodUploads ==
  {Upload("resume", "pdf", Pdf, 1, "T1"),
   Upload("cv", "PDF", Pdf, 1, "T1"),
   Upload("letter", "docx", Docx, 1, "T2")}

BadTypeUploads ==
  {Upload("notes", "txt", "text/plain", 1, "T1"),
   Upload("photo", "pdf", "image/png", 1, "T1"),
   Upload("resume", "txt", Pdf, 1, "T1")}

Uploads ==
  GoodUploads \cup BadTypeUploads
    \cup {Upload("big", "pdf", Pdf, 6, "T2"), Upload("broken", "pdf", Pdf, 1, Unreadable)}

(***************************************************************************)
(* The cache service (server/services/cacheService.js).  A memory entry is *)
(* [value, t] with t the time it expires at; the value of an analysis      *)
(* entry is [analysis, timestamp].  node-cache is created with useClones   *)
(* false, so what get returns is the stored object itself.                 *)
(***************************************************************************)
Hour == 60 * 60

\* new Date().getHours(), for a server started at midnight
getHours(now) == (now \div Hour) % 24

AnalysisTTL == 7200

Null == [null |-> TRUE]

\* crypto md5 digest of the text, as a fixed function of the text
Md5(text) ==
  CASE text = "T1" -> "9f2c"
    [] text = "T2" -> "e41b"
    [] OTHER -> "d41d"

generateCacheKey(text, prefix) == <<prefix, Md5(text)>>

\* JSON.stringify / JSON.parse of a cache value
ToJson(value) == [json |-> value]
FromJson(str) == str.json

\* node-cache get: an entry past its expiry time is gone
MemoryGet(mem, key, now) ==
  IF key \in DOMAIN mem /\ ~(mem[key].t < now) THEN mem[key].value ELSE Null

\* a key of the Redis server that has not expired
RedisHas(rds, key, now) == key \in DOMAIN rds.data /\ now < rds.data[key].t

\* this.redisClient && this.redisClient.isOpen
RedisOpen(rds) == rds.client = "open"

\* does get(key) take its value from Redis?
FromRedis(rds, key, now, redisFails) ==
  RedisOpen(rds) /\ ~redisFails /\ RedisHas(rds, key, now)

\* CacheService.get(key); redisFails: the Redis command throws
get(mem, rds, key, now, redisFails) ==
  IF RedisOpen(rds) /\ redisFails THEN Null
  ELSE IF FromRedis(rds, key, now, redisFails) THEN FromJson(rds.data[key].value)
  ELSE MemoryGet(mem, key, now)

\* CacheService.set(key, value, ttl): the two stores after it and the
\* value returned
set(mem, rds, key, value, ttl, now, redisFails) ==
  IF RedisOpen(rds) /\ redisFails
    THEN [mem |-> mem, redis |-> rds, ok |-> FALSE]
    ELSE [mem |-> Put(mem, key, [value |-> value, t |-> now + ttl]),
          redis |-> IF RedisOpen(rds)
                      THEN [rds EXCEPT !.data =
                              Put(@, key, [value |-> ToJson(value), t |-> now + ttl])]
                      ELSE rds,
          ok |-> TRUE]

\* CacheService.flush()
flush(mem, rds, redisFails) ==
  IF RedisOpen(rds) /\ redisFails
    THEN [mem |-> mem, redis |-> rds, ok |-> FALSE]
    ELSE [mem |-> EmptyStore,
          redis |-> IF RedisOpen(rds) THEN [rds EXCEPT !.data = EmptyStore] ELSE rds,
          ok |-> TRUE]

\* the result of analyzeResume on a file with this text
Analysis(text) ==
  [of |-> text, optimized |-> FALSE, cached |-> FALSE, cacheTimestamp |-> NoTime]

cacheResumeAnalysis(mem, rds, resumeText, analysis, now, redisFails) ==
  set(mem, rds, generateCacheKey(resumeText, "analysis"),
      [analysis |-> analysis, timestamp |-> now], AnalysisTTL, now, redisFails)

\* getCachedResumeAnalysis(resumeText): the analysis returned (or Null) and
\* the memory cache after it; the hit flags are written into the object
\* get returned, which is the stored one when it came from the memory cache
getCachedResumeAnalysis(mem, rds, resumeText, now, redisFails) ==
  LET key == generateCacheKey(resumeText, "analysis")
      cached == get(mem, rds, key, now, redisFails)
      hit == [cached.analysis EXCEPT !.cached = TRUE,
                                     !.cacheTimestamp = cached.timestamp]
  IN  IF cached = Null
        THEN [mem |-> mem, analysis |-> Null]
      ELSE IF FromRedis(rds, key, now, redisFails)
        THEN [mem |-> mem, analysis |-> hit]
      ELSE [mem |-> [mem EXCEPT ![key].value.analysis = hit], analysis |-> hit]

(***************************************************************************)
(* POST /api/analyze-resume.  The handler runs between awaits; a request   *)
(* in flight is at one of them:                                            *)
(*   "extracting"  the middlewares passed and the file is stored; the      *)
(*                 handler awaits extractTextFromFile                      *)
(*   "analyzing"   the cache lookup missed; the handler awaits             *)
(*                 analyzeResume                                           *)
(* Other requests are served while one waits.                              *)
(***************************************************************************)
\* a bug: the files are left in the uploads directory
unlinkNothing(stored, files) == stored

\* fs.unlink(file.path, callback) is called for each of the files
unlink(stored, files) == stored \ files

\* the temp file of the request in slot s, or of one answered on arrival
TempFile(s) == <<s, 1>>

FreeSlots == {s \in Slots : reqs[s].pc = "free"}

LowestFree == CHOOSE s \in FreeSlots : \A x \in FreeSlots : s <= x

FileTooLarge == "File too large. Maximum size is 5MB."

\* the request arrives: validateAPIKey middleware, multer (fileFilter, then
\* the size limit while the file is stored), and the handler up to its
\* first await.  A request that is answered here takes no slot.
AnalyzeArrive(header, upload) ==
  /\ Idle
  /\ LET auth == validateAPIKeyMiddleware(apiKeys, header, Today, MonthOf(Today))
         answer(status, error) ==
           /\ resp' = Response(AnalyzeResume, status, error, FALSE)
           /\ reqs' = reqs
         \* multer stored no file, or removed the one it was storing
         rejected(status, error) == answer(status, error) /\ tempFiles' = tempFiles
     IN  /\ apiKeys' = auth.keys
         /\ ret' = IF header = NoKey THEN ret
                   ELSE Ret("validateAPIKey", header, "", auth.next, auth.error, 0)
         /\ IF ~auth.next
              THEN rejected(auth.status, auth.error)
            ELSE IF upload = NoFile
              THEN rejected(400, "No file uploaded")
            ELSE IF ~fileFilter(upload).isValid
              THEN rejected(500, join(fileFilter(upload).errors, "; "))
            ELSE IF upload.sizeMB > MaxFileSizeMB
              THEN rejected(400, FileTooLarge)
            ELSE IF ~validateFile(upload).isValid
              THEN /\ answer(400, "File validation failed: "
                                    \o join(validateFile(upload).errors, ", "))
                   /\ tempFiles' = tempFiles \cup {TempFile(NoSlot)}
            ELSE /\ FreeSlots # {}
                 /\ reqs' = [reqs EXCEPT ![LowestFree] =
                               [pc |-> "extracting", apiKey |-> header, file |-> upload]]
                 /\ resp' = resp
                 /\ tempFiles' = tempFiles \cup {TempFile(LowestFree)}
  /\ UNCHANGED <<clock, users, keysFile, usersFile, savePending, calls, pending, okToday>>
  /\ UNCHANGED <<memoryCache, redis, uptime, analysedAt>>
  /\ UNCHANGED <<cacheRet, analyzerVars, queueVars, adminConfig, backups, trackVars>>

FailedToAnalyze == "Failed to analyze resume"

MaxFailures == 1       \* failed analyses the usage tracker counts

\* the text is extracted and the cache is looked up: a hit is answered with
\* the cached analysis and records no usage
AnalyzeLookup(s, redisFails) ==
  /\ Idle
  /\ reqs[s].pc = "extracting"
  /\ redisFails => RedisOpen(redis)
  /\ LET text == reqs[s].file.text
         look == getCachedResumeAnalysis(memoryCache, redis, text, uptime, redisFails)
     IN  IF text = Unreadable
           THEN /\ ~redisFails
                /\ counters.failedAnalyses < MaxFailures
                /\ counters' = logUsage(counters, "analysis_failure", getHours(uptime))
                /\ resp' = Response(AnalyzeResume, 500, FailedToAnalyze, FALSE)
                /\ reqs' = [reqs EXCEPT ![s] = FreeSlot]
                /\ memoryCache' = memoryCache
                /\ tempFiles' = unlink(tempFiles, {TempFile(s)})
         ELSE IF look.analysis # Null
           THEN /\ resp' = Response(AnalyzeResume, 200, "", TRUE)
                /\ reqs' = [reqs EXCEPT ![s] = FreeSlot]
                /\ memoryCache' = look.mem
                /\ tempFiles' = unlink(tempFiles, {TempFile(s)})
                /\ counters' = counters
         ELSE /\ resp' = resp
              /\ reqs' = [reqs EXCEPT ![s].pc = "analyzing"]
              /\ memoryCache' = memoryCache
              /\ tempFiles' = tempFiles
              /\ counters' = counters
  /\ UNCHANGED <<keyVars, redis, uptime, analysedAt>>
  /\ UNCHANGED <<cacheRet, analyzerVars, queueVars, adminConfig, backups, analyticsFile>>

\* analyzeResume returns (or throws): the analysis is cached, the response
\* is optimized in place, the usage is recorded and the response is sent
AnalyzeFinish(s, analysisFails, redisFails, cap) ==
  /\ Idle
  /\ reqs[s].pc = "analyzing"
  /\ redisFails => RedisOpen(redis) /\ ~analysisFails
  /\ reqs' = [reqs EXCEPT ![s] = FreeSlot]
  /\ tempFiles' = unlink(tempFiles, {TempFile(s)})
  /\ IF analysisFails
       THEN /\ counters.failedAnalyses < MaxFailures
            /\ counters' = logUsage(counters, "analysis_failure", getHours(uptime))
            /\ resp' = Response(AnalyzeResume, 500, FailedToAnalyze, FALSE)
            /\ UNCHANGED <<keyVars, memoryCache, redis, analysedAt>>
       ELSE LET text == reqs[s].file.text
                key == generateCacheKey(text, "analysis")
                stored == cacheResumeAnalysis(memoryCache, redis, text, Analysis(text),
                                              uptime, redisFails)
            IN  /\ memoryCache' =
                     IF stored.ok
                       THEN [stored.mem EXCEPT ![key].value.analysis.optimized = TRUE]
                       ELSE stored.mem
                /\ redis' = stored.redis
                /\ RecordUsageCall(reqs[s].apiKey, cap)
                /\ pending' = pending
                /\ counters' =
                     logUsage(logUsage(counters, "analysis_request", getHours(uptime)),
                              "analysis_success", getHours(uptime))
                /\ resp' = Response(AnalyzeResume, 200, "", FALSE)
                /\ analysedAt' = [analysedAt EXCEPT ![text] = uptime]
  /\ uptime' = uptime
  /\ UNCHANGED <<cacheRet, analyzerVars, queueVars, adminConfig, backups, analyticsFile>>

\* POST /api/cache/flush
HttpCacheFlush(redisFails) ==
  /\ Idle
  /\ redisFails => RedisOpen(redis)
  /\ LET out == flush(memoryCache, redis, redisFails)
     IN  /\ memoryCache' = out.mem
         /\ redis' = out.redis
  /\ resp' = Response(CacheFlush, 200, "", FALSE)
  /\ analysedAt' = [t \in Texts |-> NoTime]
  /\ UNCHANGED <<keyVars, reqs, uptime>>
  /\ UNCHANGED backVars

(***************************************************************************)
(* SpecAnalyze: one key, created through the API, used by analyze requests *)
(* that overlap, on one date and without Redis.                            *)
(***************************************************************************)
NextAnalyze ==
  \/ HttpKeysCreate(QuotaKey, [name |-> TRUE, email |-> TRUE, tier |-> NoTier], "u1")
  \/ RateLimit(AnalyzeResume)
  \/ \E header \in KeyIds \cup {NoKey}, upload \in Uploads \cup {NoFile} :
       AnalyzeArrive(header, upload)
  \/ \E s \in Slots : AnalyzeLookup(s, FALSE)
  \/ \E s \in Slots, analysisFails \in BOOLEAN :
       AnalyzeFinish(s, analysisFails, FALSE, MaxRecords)
  \/ RunSave
  \/ HttpCacheFlush(FALSE)

SpecAnalyze == InitServer /\ [][NextAnalyze]_vars

\* C3: even when analyze requests for one key overlap, in every reachable
\* state (the key's tier is never changed here) usage.dailyRequests is at
\* most limits.dailyRequests and usage.monthlyRequests at most
\* limits.monthlyRequests.
C3_QuotaEnforced ==
  \A k \in DOMAIN apiKeys :
    /\ apiKeys[k].usage.dailyRequests <= apiKeys[k].limits.dailyRequests
    /\ apiKeys[k].usage.monthlyRequests <= apiKeys[k].limits.monthlyRequests

QuotaErrors == {"Daily request limit exceeded", "Monthly request limit exceeded"}

\* C8: a request whose key has exceeded its daily or monthly quota is
\* answered with status 429, not with the 401 of a missing, invalid or
\* inactive key.
C8_QuotaAnswered429 ==
  (resp.route = AnalyzeResume /\ resp.error \in QuotaErrors) => resp.status = 429

\* the messages of a rejection for the file type alone
FileTypeErrors ==
  {join(fileFilter(f).errors, "; ") : f \in BadTypeUploads}

\* C9: an upload rejected because its extension or MIME type is not
\* supported is answered with status 400, never 500, and no request for
\* such a file is in flight towards the analysis.
C9_BadTypeAnswered400 ==
  /\ (resp.route = AnalyzeResume /\ resp.error \in FileTypeErrors) => resp.status = 400
  /\ \A s \in Slots : reqs[s].pc # "free" => reqs[s].file \notin BadTypeUploads

(***************************************************************************)
(* SpecCache: analyze requests against the cache over time, with or        *)
(* without Redis.  A Redis command may throw while the client is open, and *)
(* the client's 'error' event sets redisClient to null.                    *)
(***************************************************************************)
MaxHours == 3          \* hours of uptime explored

TimePasses ==
  /\ uptime + Hour <= MaxHours * Hour
  /\ uptime' = uptime + Hour
  /\ UNCHANGED <<keyVars, reqs, resp, memoryCache, redis, analysedAt>>
  /\ UNCHANGED backVars

\* redisClient.on('error', ...)
RedisError ==
  /\ RedisOpen(redis)
  /\ redis' = [redis EXCEPT !.client = "null"]
  /\ UNCHANGED <<keyVars, reqs, resp, memoryCache, uptime, analysedAt>>
  /\ UNCHANGED backVars

NextCache ==
  \/ HttpKeysCreate(QuotaKey, [name |-> TRUE, email |-> TRUE, tier |-> NoTier], "u1")
  \/ \E upload \in GoodUploads : AnalyzeArrive(QuotaKey, upload)
  \/ \E s \in Slots, redisFails \in BOOLEAN : AnalyzeLookup(s, redisFails)
  \/ \E s \in Slots, redisFails \in BOOLEAN : AnalyzeFinish(s, FALSE, redisFails, MaxUses)
  \/ RunSave
  \/ \E redisFails \in BOOLEAN : HttpCacheFlush(redisFails)
  \/ TimePasses
  \/ RedisError

\* a fresh install started with or without a Redis connection
InitCache == InitKeys /\ InitHttp

SpecCache == InitCache /\ [][NextCache]_vars

\* the request in slot s gets the answer of its cache lookup in this step
LooksUp(s) == reqs[s].pc = "extracting" /\ reqs'[s].pc # "extracting"

\* an analysis of the text was completed, no flush was requested since,
\* and its TTL has not run out
AnalysedWithinTTL(text) ==
  /\ text \in Texts
  /\ analysedAt[text] # NoTime
  /\ uptime <= analysedAt[text] + AnalysisTTL

\* C10: the analysis cache key depends on the extracted text only, whatever
\* the filename, and a request whose text was analysed by an earlier
\* request, within the TTL and with no flush in between, is answered from
\* the cache with cached = true instead of being analysed again.
C10_SecondServedFromCache ==
  [][/\ \A f \in GoodUploads, g \in GoodUploads :
          f.text = g.text =>
            generateCacheKey(f.text, "analysis") = generateCacheKey(g.text, "analysis")
     /\ \A s \in Slots :
          (LooksUp(s) /\ AnalysedWithinTTL(reqs[s].file.text)) =>
            (resp' = Response(AnalyzeResume, 200, "", TRUE) /\ reqs'[s].pc = "free")]_vars

(***************************************************************************)
(* SpecCacheOps: CacheService.get and CacheService.set called directly,    *)
(* with Redis connected or not, over time.                                 *)
(***************************************************************************)
CachePrefixes == {"analysis"}

CacheKeys == {generateCacheKey(text, prefix) : text \in Texts, prefix \in CachePrefixes}

CacheValues == {[analysis |-> Analysis(text), timestamp |-> 0] : text \in Texts}

CacheTTLs == {Hour}

\* await cacheService.get(key)
CacheGet(key, redisFails) ==
  /\ redisFails => RedisOpen(redis)
  /\ cacheRet' = [op |-> "get", seq |-> 1 - cacheRet.seq, key |-> key,
                  redisFailed |-> redisFails, arg |-> Null,
                  value |-> get(memoryCache, redis, key, uptime, redisFails)]
  /\ UNCHANGED <<keyVars, reqs, resp, memoryCache, redis, uptime, analysedAt>>
  /\ UNCHANGED <<analyzerVars, sideVars>>

\* await cacheService.set(key, value, ttl)
CacheSet(key, value, ttl, redisFails) ==
  /\ redisFails => RedisOpen(redis)
  /\ LET out == set(memoryCache, redis, key, value, ttl, uptime, redisFails)
     IN  /\ memoryCache' = out.mem
         /\ redis' = out.redis
         /\ cacheRet' = [op |-> "set", seq |-> 1 - cacheRet.seq, key |-> key,
                         redisFailed |-> redisFails, arg |-> value,
                         value |-> [ok |-> out.ok]]
  /\ UNCHANGED <<keyVars, reqs, resp, uptime, analysedAt>>
  /\ UNCHANGED <<analyzerVars, sideVars>>

NextCacheOps ==
  \/ \E key \in CacheKeys, redisFails \in BOOLEAN : CacheGet(key, redisFails)
  \/ \E key \in CacheKeys, value \in CacheValues, ttl \in CacheTTLs,
        redisFails \in BOOLEAN : CacheSet(key, value, ttl, redisFails)
  \/ TimePasses
  \/ RedisError

SpecCacheOps == InitCache /\ [][NextCacheOps]_vars

\* a call of get or set was made in this step and its Redis command threw
RedisFailedIn(op) ==
  cacheRet' # cacheRet /\ cacheRet'.op = op /\ cacheRet'.redisFailed

\* C11: when a Redis command fails, get returns the value the memory cache
\* holds for the key, and set stores the value in the memory cache.
C11_DegradesToMemory ==
  [][/\ RedisFailedIn("get") =>
          cacheRet'.value = MemoryGet(memoryCache, cacheRet'.key, uptime)
     /\ RedisFailedIn("set") =>
          MemoryGet(memoryCache', cacheRet'.key, uptime) = cacheRet'.arg]_vars

(***************************************************************************)
(* The resume analyzer (server/services/resumeAnalyzer.js) and the         *)
(* industry analyzer (server/services/industryAnalyzer.js).  A text is     *)
(* described by what the regular expressions and keyword searches of the   *)
(* code find in it: its number of words, the patterns matched, and the     *)
(* number of keywords, critical skills and required sections found for the *)
(* detected industry.  Weights are in hundredths.                          *)
(***************************************************************************)
IndustryKeys == {"technology", "finance", "marketing", "healthcare", "sales", "general"}

Industries ==
  [technology |->
     [name |-> "Technology", keywords |-> 17, requiredSections |-> 3, criticalSkills |-> 4,
      scoringWeights |-> <<[c |-> "technical_skills", w |-> 35], [c |-> "experience", w |-> 25],
                           [c |-> "projects", w |-> 20], [c |-> "education", w |-> 10],
                           [c |-> "certifications", w |-> 10]>>,
      preferredLength |-> [min |-> 1, max |-> 2]],
   finance |->
     [name |-> "Finance", keywords |-> 14, requiredSections |-> 3, criticalSkills |-> 4,
      scoringWeights |-> <<[c |-> "experience", w |-> 30], [c |-> "education", w |-> 25],
                           [c |-> "certifications", w |-> 20],
                           [c |-> "analytical_skills", w |-> 15],
                           [c |-> "achievements", w |-> 10]>>,
      preferredLength |-> [min |-> 1, max |-> 2]],
   marketing |->
     [name |-> "Marketing", keywords |-> 13, requiredSections |-> 3, criticalSkills |-> 4,
      scoringWeights |-> <<[c |-> "experience", w |-> 25], [c |-> "creativity", w |-> 20],
                           [c |-> "digital_skills", w |-> 20], [c |-> "achievements", w |-> 20],
                           [c |-> "education", w |-> 15]>>,
      preferredLength |-> [min |-> 1, max |-> 2]],
   healthcare |->
     [name |-> "Healthcare", keywords |-> 12, requiredSections |-> 3, criticalSkills |-> 4,
      scoringWeights |-> <<[c |-> "education", w |-> 30], [c |-> "certifications", w |-> 25],
                           [c |-> "experience", w |-> 25], [c |-> "clinical_skills", w |-> 20]>>,
      preferredLength |-> [min |-> 2, max |-> 3]],
   sales |->
     [name |-> "Sales", keywords |-> 13, requiredSections |-> 2, criticalSkills |-> 4,
      scoringWeights |-> <<[c |-> "achievements", w |-> 35], [c |-> "experience", w |-> 30],
                           [c |-> "communication", w |-> 20], [c |-> "skills", w |-> 15]>>,
      preferredLength |-> [min |-> 1, max |-> 2]],
   general |->
     [name |-> "General", keywords |-> 0, requiredSections |-> 2, criticalSkills |-> 0,
      scoringWeights |-> <<[c |-> "experience", w |-> 30], [c |-> "education", w |-> 20],
                           [c |-> "skills", w |-> 20], [c |-> "achievements", w |-> 15],
                           [c |-> "formatting", w |-> 15]>>,
      preferredLength |-> [min |-> 1, max |-> 2]]]

Min(a, b) == IF a < b THEN a ELSE b
Max(a, b) == IF a > b THEN a ELSE b

\* Math.ceil(a / b) and Math.round(a / b) for naturals a and b > 0
CeilDiv(a, b) == (a + b - 1) \div b
RoundDiv(a, b) == (2 * a + b) \div (2 * b)

WordsPerPage == 500

\* calculateBasicMetrics(text)
calculateBasicMetrics(text) ==
  [wordCount |-> text.words,
   estimatedPages |-> CeilDiv(text.words, WordsPerPage),
   sections |-> text.sections,
   formatting |-> text.formatting]

\* analyzeIndustryFit(text, industryKey)
analyzeIndustryFit(text, industryKey) ==
  LET industry == Industries[industryKey]
  IN  [industryMatch |-> industryKey,
       industryName |-> industry.name,
       sectionsFound |-> text.requiredFound,
       sectionsRequired |-> industry.requiredSections,
       criticalSkillsFound |-> text.criticalFound,
       industryKeywordsFound |-> text.keywordsFound,
       industryKeywordsTotal |-> industry.keywords,
       quotaOrRevenueFound |-> text.quotaOrRevenue,
       scoringWeights |-> industry.scoringWeights,
       recommendedLength |-> industry.preferredLength]

\* a bug: the categories outside the map take the industry alignment score
mappedScoresWithAlignment(category, adjustedScores) ==
  CASE category \in {"technical_skills", "creativity", "digital_skills", "achievements"} ->
         adjustedScores.content
    [] category \in {"experience", "analytical_skills"} -> adjustedScores.structure
    [] category \in {"education", "communication"} -> adjustedScores.formatting
    [] category = "certifications" -> adjustedScores.length
    [] OTHER -> adjustedScores.industryAlignment

\* the basic score an industry category is mapped to (completeness is not
\* among the basic scores, and a category outside the map has no entry:
\* both give the content score)
mappedScores(category, adjustedScores) ==
  CASE category \in {"technical_skills", "creativity", "digital_skills", "achievements"} ->
         adjustedScores.content
    [] category \in {"experience", "analytical_skills"} -> adjustedScores.structure
    [] category \in {"education", "communication"} -> adjustedScores.formatting
    [] category = "certifications" -> adjustedScores.length
    [] OTHER -> adjustedScores.content

RECURSIVE SumWeights(_)
SumWeights(weights) ==
  IF weights = <<>> THEN 0 ELSE Head(weights).w + SumWeights(Tail(weights))

RECURSIVE WeightedSum(_, _)
WeightedSum(weights, adjustedScores) ==
  IF weights = <<>> THEN 0
  ELSE mappedScores(Head(weights).c, adjustedScores) * Head(weights).w
         + WeightedSum(Tail(weights), adjustedScores)

\* the industry-specific adjustments of calculateIndustryScore
adjustScores(basicScores, industryAnalysis) ==
  LET industry == industryAnalysis.industryMatch
  IN  IF industry = "technology"
        THEN [basicScores EXCEPT
                !.content = IF industryAnalysis.criticalSkillsFound > 2
                              THEN Min(10, @ + 1) ELSE @,
                !.length = IF @ < 7 THEN Max(1, @ - 1) ELSE @]
      ELSE IF industry = "sales"
        THEN [basicScores EXCEPT
                !.content = IF industryAnalysis.quotaOrRevenueFound
                              THEN Min(10, @ + 1) ELSE @]
      ELSE IF industry = "healthcare"
        THEN [basicScores EXCEPT
                !.length = IF @ < 8 /\ industryAnalysis.sectionsFound >= 3
                             THEN Min(10, @ + 1) ELSE @]
      ELSE basicScores

\* is the weighted score half-way between two integers?  The sum is then
\* computed in floating point on either side of the half.
IsTie(sum, total) == (2 * sum) % total = 0 /\ ((2 * sum) \div total) % 2 = 1

\* calculateIndustryScore(basicScores, industryAnalysis).industryAdjustedOverall;
\* tieUp: a half-way sum is rounded up
calculateIndustryScore(basicScores, industryAnalysis, tieUp) ==
  LET weights == industryAnalysis.scoringWeights
      total == SumWeights(weights)
      sum == WeightedSum(weights, adjustScores(basicScores, industryAnalysis))
  IN  IF IsTie(sum, total) /\ ~tieUp THEN sum \div total ELSE RoundDiv(sum, total)

SectionNames == {"contact", "experience", "education", "skills", "summary"}

Count(flag) == IF flag THEN 1 ELSE 0

\* generateStrengths(metrics).length and generateImprovements(metrics).length
generateStrengths(metrics) ==
  Count("experience" \in metrics.sections) + Count("education" \in metrics.sections)
    + Count("skills" \in metrics.sections) + Count(metrics.formatting.hasBulletPoints)
    + Count(metrics.estimatedPages <= 2)

generateImprovements(metrics) ==
  Count("summary" \notin metrics.sections) + Count("skills" \notin metrics.sections)
    + Count(~metrics.formatting.hasBulletPoints) + Count(metrics.estimatedPages > 2)
    + Count(metrics.wordCount < 200)

\* generateIndustryFeedback(analysis), as the lengths of its three lists;
\* for the general industry the keyword ratio is 0 / 0, which compares
\* false both ways
generateIndustryFeedback(analysis) ==
  LET allSections == analysis.sectionsFound >= analysis.sectionsRequired
      total == analysis.industryKeywordsTotal
      found == analysis.industryKeywordsFound
      skillsTotal == Industries[analysis.industryMatch].criticalSkills
  IN  [strengths |-> Count(allSections) + Count(analysis.criticalSkillsFound > 0)
                       + Count(total > 0 /\ 10 * found > 3 * total),
       improvements |-> Count(~allSections)
                          + Count(analysis.criticalSkillsFound < skillsTotal)
                          + Count(total > 0 /\ 10 * found < total),
       industrySpecific |-> IF analysis.industryMatch = "general" THEN 0 ELSE 2]

\* a bug: a resume far over the recommended length scores 0 for length
lengthScoreBelowScale(estimatedPages, recommendedLength) ==
  IF estimatedPages >= recommendedLength.min /\ estimatedPages <= recommendedLength.max
    THEN 9
  ELSE IF estimatedPages = recommendedLength.max + 1 THEN 7
  ELSE IF estimatedPages > recommendedLength.max + 1 THEN 0
  ELSE 5

\* the industry-specific length scoring of fallbackAnalysis
lengthScore(estimatedPages, recommendedLength) ==
  IF estimatedPages >= recommendedLength.min /\ estimatedPages <= recommendedLength.max
    THEN 9
  ELSE IF estimatedPages = recommendedLength.max + 1 THEN 7
  ELSE IF estimatedPages > recommendedLength.max + 1 THEN 4
  ELSE 5

\* the five basic scores of fallbackAnalysis
fallbackScores(text, metrics, industryAnalysis) ==
  LET contentScore ==
        5 + Count(metrics.wordCount > 200) + Count(metrics.wordCount > 400)
          + Count(text.years) + Count(text.verbs)
      industryAlignmentScore ==
        Min(10, 3 + RoundDiv(7 * industryAnalysis.industryKeywordsFound,
                             Max(1, industryAnalysis.industryKeywordsTotal)))
          + Min(2, industryAnalysis.criticalSkillsFound)
      structureScore ==
        Min(10, 3 + Cardinality(metrics.sections))
          + Count(industryAnalysis.sectionsFound >= industryAnalysis.sectionsRequired)
      formattingScore ==
        5 + Count(metrics.formatting.hasBulletPoints) + Count(metrics.formatting.hasEmails)
          + Count(metrics.formatting.hasPhones) + Count(metrics.formatting.hasNumbers)
  IN  [content |-> Min(10, contentScore),
       structure |-> Min(10, structureScore),
       formatting |-> Min(10, formattingScore),
       industryAlignment |-> Min(10, industryAlignmentScore),
       length |-> lengthScore(metrics.estimatedPages, industryAnalysis.recommendedLength)]

\* fallbackAnalysis(text, metrics, industryAnalysis)
fallbackAnalysis(text, metrics, industryAnalysis, tieUp) ==
  LET scores == fallbackScores(text, metrics, industryAnalysis)
      industryAdjustedOverall == calculateIndustryScore(scores, industryAnalysis, tieUp)
      average == RoundDiv(scores.content + scores.structure + scores.formatting
                            + scores.industryAlignment + scores.length, 5)
      industryFeedback == generateIndustryFeedback(industryAnalysis)
  IN  [overallScore |-> IF industryAdjustedOverall # 0
                          THEN industryAdjustedOverall ELSE average,
       scores |-> scores,
       feedback |->
         [strengths |-> generateStrengths(metrics) + industryFeedback.strengths,
          improvements |-> generateImprovements(metrics) + industryFeedback.improvements,
          industrySpecific |-> industryFeedback.industrySpecific,
          summary |-> industryAnalysis.industryName]]

(***************************************************************************)
(* The texts analysed.  A text with no words matches nothing; a phone      *)
(* number or a number of years contains a digit; an industry other than    *)
(* general is detected when more than a tenth of its keywords are found.   *)
(***************************************************************************)
Formatting(bullets, emails, phones, numbers) ==
  [hasBulletPoints |-> bullets, hasEmails |-> emails, hasPhones |-> phones,
   hasNumbers |-> numbers]

NoFormatting == Formatting(FALSE, FALSE, FALSE, FALSE)

EmptyText ==
  [words |-> 0, years |-> FALSE, verbs |-> FALSE, sections |-> {},
   formatting |-> NoFormatting, industry |-> "general", keywordsFound |-> 0,
   criticalFound |-> 0, requiredFound |-> 0, quotaOrRevenue |-> FALSE]

WordCounts == {150, 450, 900, 1400, 1900, 2400}

SectionSets == {{}, {"experience", "education", "skills"}, SectionNames}

Formattings ==
  {NoFormatting, Formatting(TRUE, FALSE, FALSE, FALSE), Formatting(FALSE, FALSE, FALSE, TRUE),
   Formatting(FALSE, TRUE, TRUE, TRUE), Formatting(TRUE, TRUE, TRUE, TRUE)}

\* detectIndustry: score > 0.1
Detected(industryKey, found) ==
  IF industryKey = "general" THEN found = 0
  ELSE 10 * found > Industries[industryKey].keywords

KeywordCounts(industryKey) ==
  {n \in {0, 2, Industries[industryKey].keywords \div 2, Industries[industryKey].keywords} :
     Detected(industryKey, n)}

IsText(text) ==
  /\ text.years => text.formatting.hasNumbers
  /\ text.quotaOrRevenue => text.industry = "sales"

TextsOf(industryKeys, wordCounts) ==
  {EmptyText} \cup
  UNION {
    {text \in [words : wordCounts, years : BOOLEAN, verbs : BOOLEAN,
                sections : SectionSets, formatting : Formattings,
                industry : {industryKey},
                keywordsFound : KeywordCounts(industryKey),
                criticalFound : 0 .. Industries[industryKey].criticalSkills,
                requiredFound : 0 .. Industries[industryKey].requiredSections,
                quotaOrRevenue : BOOLEAN] : IsText(text)}
    : industryKey \in industryKeys}

AllTexts == TextsOf(IndustryKeys, WordCounts)

\* the arguments fallbackAnalysis gets from analyzeResume for a text
MetricsOf(text) == calculateBasicMetrics(text)
IndustryFitOf(text) == analyzeIndustryFit(text, text.industry)

\* fallbackAnalysis called on a text, once
FallbackAnalysis ==
  /\ anIn = NoAnalyzerCall
  /\ \E text \in AllTexts, tieUp \in BOOLEAN :
       /\ anIn' = [op |-> "fallbackAnalysis", text |-> text, tieUp |-> tieUp]
       /\ anOut' = fallbackAnalysis(text, MetricsOf(text), IndustryFitOf(text), tieUp)
  /\ UNCHANGED <<keyVars, reqs, resp, memoryCache, redis, uptime, analysedAt, cacheRet>>
  /\ UNCHANGED sideVars

NextFallback == FallbackAnalysis

SpecFallback == InitServer /\ [][NextFallback]_vars

ScoreNames == {"content", "structure", "formatting", "industryAlignment", "length"}

\* C14: for every text, the empty one included, and every detected industry,
\* fallbackAnalysis returns five sub-scores in 1..10 and an overallScore that
\* is the rounded weighted blend of calculateIndustryScore, a number in 1..10.
C14_FallbackScores ==
  anIn.op = "fallbackAnalysis" =>
    /\ DOMAIN anOut.scores = ScoreNames
    /\ \A name \in ScoreNames : anOut.scores[name] \in 1 .. 10
    /\ anOut.overallScore =
         calculateIndustryScore(anOut.scores, IndustryFitOf(anIn.text), anIn.tieUp)
    /\ anOut.overallScore \in 1 .. 10

\* the empty text has been scored
C14_Witness ==
  /\ anIn.op = "fallbackAnalysis"
  /\ anIn.text = EmptyText
  /\ anOut.overallScore \in 1 .. 10

(***************************************************************************)
(* analyzeResume: text extraction, metrics, industry fit, the LLM call     *)
(* with its fallback, and the ATS check.                                   *)
(***************************************************************************)
\* what openai.chat.completions.create does: it throws, or it answers with a
\* content that JSON.parse rejects, or with a content that parses to a value
LlmAsked ==
  [overallScore |-> 8,
   scores |-> [content |-> 8, structure |-> 7, formatting |-> 8,
               industryAlignment |-> 7, length |-> 9],
   feedback |-> [strengths |-> 2, improvements |-> 2, industrySpecific |-> 2,
                 summary |-> "brief overall assessment"]]

LlmOffScale == [LlmAsked EXCEPT !.overallScore = 85]

LlmNoScores == [overallScore |-> 7, feedback |-> LlmAsked.feedback]

LlmAnswers ==
  {[outcome |-> "throws", content |-> Null], [outcome |-> "unparseable", content |-> Null]}
    \cup [outcome : {"json"}, content : {LlmAsked, LlmOffScale, LlmNoScores, Null}]

Returned(value) == [threw |-> FALSE, value |-> value]
Thrown == [threw |-> TRUE, value |-> Null]

\* a bug: the failure of the LLM call is passed on to the caller
analyzeWithAIRethrows(text, metrics, industryAnalysis, apiKeySet, llm, tieUp) ==
  IF ~apiKeySet THEN Returned(fallbackAnalysis(text, metrics, industryAnalysis, tieUp))
  ELSE IF llm.outcome = "json" THEN Returned(llm.content)
  ELSE Thrown

\* analyzeWithAI(text, metrics, industryAnalysis); apiKeySet: OPENAI_API_KEY
analyzeWithAI(text, metrics, industryAnalysis, apiKeySet, llm, tieUp) ==
  IF ~apiKeySet THEN Returned(fallbackAnalysis(text, metrics, industryAnalysis, tieUp))
  ELSE IF llm.outcome = "json" THEN Returned(llm.content)
  ELSE Returned(fallbackAnalysis(text, metrics, industryAnalysis, tieUp))

\* the own properties an object spread copies: none from null
Spread(value) == IF value = Null THEN [name \in {} |-> Null] ELSE value

\* the summary analyzeResume makes of the ATS check
atsCompatibilityOf(ats) ==
  [score |-> ats.score, isATSFriendly |-> ats.score >= 7,
   summary |-> IF ats.score >= 8 THEN "Excellent"
               ELSE IF ats.score >= 6 THEN "Good"
               ELSE IF ats.score >= 4 THEN "Fair" ELSE "Poor",
   recommendations |-> Min(3, ats.recommendations)]

\* analyzeResume(file); analysis: what analyzeWithAI returned
analyzeResume(file, apiKeySet, llm, ats, tieUp) ==
  IF ~file.readable THEN Thrown @@ [analysis |-> Null]
  ELSE
    LET text == file.text
        metrics == calculateBasicMetrics(text)
        industryAnalysis == analyzeIndustryFit(text, text.industry)
        analysis == analyzeWithAI(text, metrics, industryAnalysis, apiKeySet, llm, tieUp)
    IN  IF analysis.threw THEN Thrown @@ [analysis |-> Null]
        ELSE
          Returned(
            [metrics |-> [wordCount |-> metrics.wordCount,
                          estimatedPages |-> metrics.estimatedPages,
                          sectionsFound |-> metrics.sections],
             industryAnalysis |->
               [detectedIndustry |-> industryAnalysis.industryMatch,
                industryName |-> industryAnalysis.industryName,
                industryKeywordsFound |-> industryAnalysis.industryKeywordsFound,
                criticalSkillsFound |-> industryAnalysis.criticalSkillsFound,
                sectionsAlignment |-> <<industryAnalysis.sectionsFound,
                                        industryAnalysis.sectionsRequired>>,
                recommendedLength |-> industryAnalysis.recommendedLength],
             atsCompatibility |-> atsCompatibilityOf(ats)]
              @@ Spread(analysis.value))
            @@ [analysis |-> analysis.value]

SampleTexts ==
  {EmptyText,
   [words |-> 450, years |-> TRUE, verbs |-> TRUE, sections |-> SectionNames,
    formatting |-> Formatting(TRUE, TRUE, TRUE, TRUE), industry |-> "technology",
    keywordsFound |-> 8, criticalFound |-> 3, requiredFound |-> 2,
    quotaOrRevenue |-> FALSE],
   [words |-> 1900, years |-> FALSE, verbs |-> TRUE,
    sections |-> {"experience", "education", "skills"},
    formatting |-> Formatting(FALSE, TRUE, FALSE, FALSE), industry |-> "sales",
    keywordsFound |-> 2, criticalFound |-> 0, requiredFound |-> 1,
    quotaOrRevenue |-> TRUE]}

Files == [readable : BOOLEAN, text : SampleTexts]

AtsResults == [score : {5, 7, 9}, recommendations : {1, 5}]

\* analyzeResume called on a file, once
AnalyzeResumeCall ==
  /\ anIn = NoAnalyzerCall
  /\ \E file \in Files, apiKeySet \in BOOLEAN, llm \in LlmAnswers, ats \in AtsResults,
        tieUp \in BOOLEAN :
       /\ anIn' = [op |-> "analyzeResume", file |-> file, apiKeySet |-> apiKeySet,
                   llm |-> llm, ats |-> ats, tieUp |-> tieUp]
       /\ anOut' = analyzeResume(file, apiKeySet, llm, ats, tieUp)
  /\ UNCHANGED <<keyVars, reqs, resp, memoryCache, redis, uptime, analysedAt, cacheRet>>
  /\ UNCHANGED sideVars

NextAnalyzer == AnalyzeResumeCall

SpecAnalyzer == InitServer /\ [][NextAnalyzer]_vars

\* the LLM was called (credential set, text extracted) and the call threw or
\* its content was not JSON
LlmFailed ==
  /\ anIn.op = "analyzeResume"
  /\ anIn.file.readable
  /\ anIn.apiKeySet
  /\ anIn.llm.outcome \in {"throws", "unparseable"}

HasSharedShape(result) ==
  /\ {"overallScore", "scores", "feedback", "metrics", "industryAnalysis",
       "atsCompatibility"} \subseteq DOMAIN result
  /\ result.overallScore \in 1 .. 10
  /\ DOMAIN result.scores = ScoreNames
  /\ DOMAIN result.feedback = {"strengths", "improvements", "industrySpecific", "summary"}

\* C13: every result analyzeResume returns, from the LLM path or from the
\* fallback path, has an overallScore in 1..10, the five scores, the feedback
\* lists, the metrics, the industry analysis summary and the ATS summary.
C13_SharedShape ==
  (anIn.op = "analyzeResume" /\ ~anOut.threw) => HasSharedShape(anOut.value)

(***************************************************************************)
(* The job queue (server/services/jobQueue.js): one Bull queue with two    *)
(* named processors.  Bull starts as many workers as each process() call   *)
(* asks for; every worker takes the next waiting job whatever its name.    *)
(* A job that throws is delayed and run again until it has failed          *)
(* `attempts` times.                                                       *)
(***************************************************************************)
Attempts == 3
BackoffDelay == 2000
AnalyzeConcurrency == 5
BulkConcurrency == 2

MaxBatch == 3          \* files in a bulk request
MaxBulkJobs == 2       \* bulk jobs per run in the bulk-job specification

RECURSIVE Pow2(_)
Pow2(n) == IF n = 0 THEN 1 ELSE 2 * Pow2(n - 1)

\* Bull's built-in exponential backoff: the delay after attemptsMade failures
exponential(attemptsMade) == (Pow2(attemptsMade) - 1) * BackoffDelay

\* the i-th file of a batch
JobFile(i, text) == Upload("resume" \o ToString(i), "pdf", Pdf, 1, text)

BatchesOf(sizes, texts) ==
  UNION {{[i \in 1 .. n |-> JobFile(i, content[i])] : content \in [1 .. n -> texts]}
         : n \in sizes}

Batches == BatchesOf(0 .. MaxBatch, {"T1", Unreadable})

NewJob(name, files) ==
  [name |-> name, state |-> "waiting", files |-> files, attemptsMade |-> 0,
   delays |-> <<>>, processed |-> 0, results |-> <<>>, returnvalue |-> Null,
   failedReason |-> "", finishedOn |-> NoTime, progress |-> 0, temp |-> {}]

UnusedJobIds == {j \in JobIds : jobs[j] = NoJob}

NextJobId == CHOOSE j \in UnusedJobIds : \A x \in UnusedJobIds : j <= x

JobsIn(state) == {j \in JobIds : jobs[j].state = state}

\* Bull after a failed attempt: back to the queue after the backoff delay
\* while attempts are left, else failed
moveToFailed(job, reason) ==
  LET made == job.attemptsMade + 1
  IN  IF made < Attempts
        THEN [job EXCEPT !.state = "delayed", !.attemptsMade = made,
                         !.delays = Append(@, exponential(made))]
        ELSE [job EXCEPT !.state = "failed", !.attemptsMade = made,
                         !.failedReason = reason]

moveToCompleted(job, returnvalue) ==
  [job EXCEPT !.state = "completed", !.returnvalue = returnvalue]

\* defaultJobOptions: the numbers of completed and of failed jobs Bull keeps
RemoveOnComplete == 10
RemoveOnFail == 50

\* what is left of a job that Bull removed: getJob finds nothing; the model
\* remembers how and when it had finished
RemovedJob(job) ==
  [state |-> "removed", name |-> job.name, was |-> job.state,
   finishedOn |-> job.finishedOn, temp |-> job.temp]

\* job j has just moved: if it finished and the jobs of its final state now
\* exceed the number to keep, the sets of jobs Bull may remove: the one
\* finished first (the model's clock does not order jobs of the same time)
Evictions(js, j) ==
  LET state == js[j].state
      keep == IF state = "completed" THEN RemoveOnComplete ELSE RemoveOnFail
      others == {x \in DOMAIN js : x # j /\ js[x].state = state}
      oldest == {x \in others : \A y \in others : js[x].finishedOn <= js[y].finishedOn}
  IN  IF state \notin {"completed", "failed"} \/ Cardinality(others) < keep
        THEN {{}}
        ELSE {{x} : x \in oldest}

\* the jobs after job j moved at time now and the jobs in gone were removed
finish(js, j, now, gone) ==
  [x \in DOMAIN js |->
     IF x \in gone THEN RemovedJob(js[x])
     ELSE IF x = j /\ js[j].state \in {"completed", "failed"}
       THEN [js[x] EXCEPT !.finishedOn = now]
       ELSE js[x]]

\* Bull's moveToFinished on the queue
Finish(moved, j) ==
  \E gone \in Evictions(moved, j) : jobs' = finish(moved, j, uptime, gone)

AnalysisFailed == "Resume analysis failed: "
WriteFailed == "ENOSPC: no space left on device, write"

\* addResumeAnalysisJob(fileData)
AddResumeAnalysisJob(file) ==
  /\ UnusedJobIds # {}
  /\ jobs' = [jobs EXCEPT ![NextJobId] = NewJob("analyze", <<file>>)]
  /\ UNCHANGED <<keyVars, reqs, resp, memoryCache, redis, uptime, analysedAt>>
  /\ UNCHANGED <<cacheRet, analyzerVars, paused, tempFiles, adminConfig, backups, trackVars>>

BulkAnalyze == "POST /api/bulk-analyze"

\* POST /api/bulk-analyze: multer stores the files, the handler reads them
\* into a job; addFails: the queue cannot be reached
HttpBulkAnalyze(batch, addFails) ==
  LET uploaded == {<<NoSlot, i>> : i \in 1 .. Len(batch)}
      stored == tempFiles \cup uploaded
      invalid == {i \in 1 .. Len(batch) : ~validateFile(batch[i]).isValid}
  IN  /\ IF Len(batch) = 0
           THEN /\ resp' = Response(BulkAnalyze, 400, "No files uploaded", FALSE)
                /\ tempFiles' = stored
                /\ jobs' = jobs
         ELSE IF invalid # {}
           THEN /\ resp' = Response(BulkAnalyze, 400, "Batch validation failed", FALSE)
                /\ tempFiles' = unlink(stored, uploaded)
                /\ jobs' = jobs
         ELSE IF addFails
           THEN /\ resp' = Response(BulkAnalyze, 500, "Failed to queue bulk analysis", FALSE)
                /\ tempFiles' = unlink(stored, uploaded)
                /\ jobs' = jobs
         ELSE /\ UnusedJobIds # {}
              /\ jobs' = [jobs EXCEPT ![NextJobId] = NewJob("bulk-analyze", batch)]
              /\ tempFiles' = unlink(stored, uploaded)
              /\ resp' = Response(BulkAnalyze, 200, "", FALSE)
      /\ UNCHANGED <<keyVars, reqs, memoryCache, redis, uptime, analysedAt>>
      /\ UNCHANGED <<cacheRet, analyzerVars, paused, adminConfig, backups, trackVars>>

\* Math.round(((i + 1) / files.length) * 100), turn being i + 1
bulkProgress(turn, n) == (200 * turn + n) \div (2 * n)

\* a worker takes a waiting job and the processor runs up to its first await:
\* the 'bulk-analyze' processor has reported the progress of its first turn
\* and waits for the analysis of the first file
StartJob(j) ==
  /\ ~paused
  /\ jobs[j].state = "waiting"
  /\ Cardinality(JobsIn("active")) < AnalyzeConcurrency + BulkConcurrency
  /\ jobs' = [jobs EXCEPT ![j].state = "active", ![j].processed = 0, ![j].results = <<>>,
                          ![j].progress = IF jobs[j].name = "bulk-analyze"
                                            THEN bulkProgress(1, Len(jobs[j].files))
                                            ELSE @]
  /\ UNCHANGED <<keyVars, reqs, resp, memoryCache, redis, uptime, analysedAt>>
  /\ UNCHANGED <<cacheRet, analyzerVars, paused, tempFiles, adminConfig, backups, trackVars>>

\* the backoff delay of a job is over
Promote(j) ==
  /\ jobs[j].state = "delayed"
  /\ jobs' = [jobs EXCEPT ![j].state = "waiting"]
  /\ UNCHANGED <<keyVars, reqs, resp, memoryCache, redis, uptime, analysedAt>>
  /\ UNCHANGED <<cacheRet, analyzerVars, paused, tempFiles, adminConfig, backups, trackVars>>

\* the processor of 'analyze' jobs; fsFails: writeFileSync throws.  The temp
\* file of an attempt is named after the job and the time; the model names
\* it by the number of the attempt.  It is unlinked after the analysis was
\* cached: when the analysis throws, the catch block rethrows and the file
\* stays.
ProcessAnalyze(j, fsFails, redisFails) ==
  /\ jobs[j].state = "active"
  /\ jobs[j].name = "analyze"
  /\ redisFails => RedisOpen(redis)
  /\ LET file == jobs[j].files[1]
         stored == cacheResumeAnalysis(memoryCache, redis, file.text, Analysis(file.text),
                                       uptime, redisFails)
         attempt == jobs[j].attemptsMade + 1
     IN  IF fsFails
           THEN /\ Finish([jobs EXCEPT ![j] =
                              moveToFailed([@ EXCEPT !.progress = 10], WriteFailed)], j)
                /\ UNCHANGED <<memoryCache, redis>>
         ELSE IF file.text = Unreadable
           THEN /\ Finish([jobs EXCEPT ![j] =
                              moveToFailed([@ EXCEPT !.progress = 30,
                                                     !.temp = @ \cup {attempt}],
                                           AnalysisFailed \o Unreadable)],
                          j)
                /\ UNCHANGED <<memoryCache, redis>>
         ELSE /\ Finish([jobs EXCEPT ![j] =
                            moveToCompleted([@ EXCEPT !.progress = 100],
                                               [success |-> TRUE,
                                                analysis |-> Analysis(file.text),
                                                filename |-> file.originalname])], j)
              /\ memoryCache' = stored.mem
              /\ redis' = stored.redis
  /\ UNCHANGED <<keyVars, reqs, resp, uptime, analysedAt>>
  /\ UNCHANGED <<cacheRet, analyzerVars, paused, tempFiles, adminConfig, backups, trackVars>>

\* a bug: a file whose analysis failed is reported as analysed
bulkResultHidesFailure(fileData) ==
  [filename |-> fileData.originalname, analysis |-> Analysis(fileData.text),
   success |-> TRUE]

\* the result entry of one file: analyzeResume returned or threw
bulkResult(fileData) ==
  IF fileData.text = Unreadable
    THEN [filename |-> fileData.originalname,
          error |-> AnalysisFailed \o Unreadable, success |-> FALSE]
    ELSE [filename |-> fileData.originalname,
          analysis |-> Analysis(fileData.text), success |-> TRUE]

Succeeded(results) == {i \in 1 .. Len(results) : results[i].success}

\* the processor of 'bulk-analyze' jobs between two awaits: the analysis of
\* file i has returned or thrown, its result is pushed and its temp file
\* unlinked; then the next turn reports its progress and writes its temp
\* file (fsFails: the write of this turn had thrown), or, after the last
\* file, the processor returns
ProcessBulkFile(j, fsFails) ==
  /\ jobs[j].state = "active"
  /\ jobs[j].name = "bulk-analyze"
  /\ LET files == jobs[j].files
         i == jobs[j].processed + 1
         results == Append(jobs[j].results, bulkResult(files[i]))
     IN  IF fsFails
           THEN Finish([jobs EXCEPT ![j] = moveToFailed(@, WriteFailed)], j)
         ELSE IF i < Len(files)
           THEN jobs' = [jobs EXCEPT ![j].processed = i, ![j].results = results,
                                     ![j].progress = bulkProgress(i + 1, Len(files))]
         ELSE Finish([jobs EXCEPT ![j] =
                         moveToCompleted([@ EXCEPT !.processed = i, !.results = results],
                                         [success |-> TRUE, results |-> results,
                                          totalFiles |-> Len(files),
                                          successCount |-> Cardinality(Succeeded(results))])],
                     j)
  /\ UNCHANGED <<keyVars, reqs, resp, memoryCache, redis, uptime, analysedAt>>
  /\ UNCHANGED <<cacheRet, analyzerVars, paused, tempFiles, adminConfig, backups, trackVars>>

(***************************************************************************)
(* SpecBulk: bulk requests of up to MaxBatch files, readable or not, and   *)
(* the workers processing them; a write to the temp directory may fail.    *)
(***************************************************************************)
BulkRequest(batch, addFails) ==
  /\ Cardinality({j \in JobIds : jobs[j] # NoJob}) < MaxBulkJobs
  /\ HttpBulkAnalyze(batch, addFails)

NextBulk ==
  \/ \E batch \in Batches, addFails \in BOOLEAN : BulkRequest(batch, addFails)
  \/ \E j \in JobIds : StartJob(j)
  \/ \E j \in JobIds, fsFails \in BOOLEAN : ProcessBulkFile(j, fsFails)
  \/ \E j \in JobIds : Promote(j)

SpecBulk == InitServer /\ [][NextBulk]_vars

Failures(files) == {i \in 1 .. Len(files) : files[i].text = Unreadable}

\* C15: a bulk job over n files of which k fail analysis completes with
\* totalFiles = n, successCount = n - k and one result per file in input
\* order, the failed ones with success = false and an error message; it is
\* marked failed only when something other than an analysis failed.
C15_BulkJobReport ==
  \A j \in JobIds :
    /\ jobs[j].state = "completed" =>
         LET files == jobs[j].files
             report == jobs[j].returnvalue
         IN  /\ report.totalFiles = Len(files)
             /\ report.successCount = Len(files) - Cardinality(Failures(files))
             /\ Len(report.results) = Len(files)
             /\ \A i \in 1 .. Len(files) :
                  /\ report.results[i].filename = files[i].originalname
                  /\ report.results[i].success = (i \notin Failures(files))
                  /\ ~report.results[i].success => report.results[i].error # ""
    /\ jobs[j].state = "failed" => jobs[j].failedReason = WriteFailed

\* a job of three files whose second file failed analysis has completed
C15_Witness ==
  \E j \in JobIds :
    /\ jobs[j].state = "completed"
    /\ Len(jobs[j].files) = 3
    /\ Failures(jobs[j].files) = {2}
    /\ jobs[j].returnvalue.successCount = 2

(***************************************************************************)
(* Pausing and resuming the queue.  The constructor assigns the Bull queue *)
(* to this.resumeQueue; this own property hides the method resumeQueue()   *)
(* of the class, so jobQueue.resumeQueue is the queue object.              *)
(***************************************************************************)
QueuePause == "POST /api/queue/pause"
QueueResume == "POST /api/queue/resume"

resumeQueueMember == "Queue"

\* POST /api/queue/pause: pauseQueue()
HttpQueuePause ==
  /\ paused' = TRUE
  /\ resp' = Response(QueuePause, 200, "", FALSE)
  /\ UNCHANGED <<keyVars, reqs, memoryCache, redis, uptime, analysedAt>>
  /\ UNCHANGED <<cacheRet, analyzerVars, jobs, tempFiles, adminConfig, backups, trackVars>>

\* POST /api/queue/resume: jobQueue.resumeQueue() is a call of the member
HttpQueueResume ==
  /\ IF resumeQueueMember = "method"
       THEN /\ paused' = FALSE
            /\ resp' = Response(QueueResume, 200, "", FALSE)
       ELSE /\ paused' = paused
            /\ resp' = Response(QueueResume, 500, "Failed to resume queue", FALSE)
  /\ UNCHANGED <<keyVars, reqs, memoryCache, redis, uptime, analysedAt>>
  /\ UNCHANGED <<cacheRet, analyzerVars, jobs, tempFiles, adminConfig, backups, trackVars>>

(***************************************************************************)
(* SpecQueue: single-analysis jobs of a readable and of an unreadable      *)
(* file, bulk jobs of one file, the workers, and pause / resume requests.  *)
(***************************************************************************)
NextQueue ==
  \/ \E text \in {"T1", Unreadable} : AddResumeAnalysisJob(JobFile(1, text))
  \/ \E batch \in BatchesOf({1}, {"T1"}) : HttpBulkAnalyze(batch, FALSE)
  \/ \E j \in JobIds : StartJob(j)
  \/ \E j \in JobIds, fsFails \in BOOLEAN : ProcessAnalyze(j, fsFails, FALSE)
  \/ \E j \in JobIds : ProcessBulkFile(j, FALSE)
  \/ \E j \in JobIds : Promote(j)
  \/ HttpQueuePause
  \/ HttpQueueResume

SpecQueue == InitServer /\ [][NextQueue]_vars

\* C16: a resume request made after the queue was paused succeeds and the
\* queue is running again, so the jobs that waited can be taken by a worker.
C16_ResumeRestartsQueue ==
  resp.route = QueueResume => (resp.status = 200 /\ ~paused)

\* C17: a job whose processor fails on every attempt is retried 3 times,
\* after delays that start at 2 seconds and grow, before it is marked failed
\* with its failure reason.
C17_RetriedThreeTimes ==
  \A j \in JobIds :
    jobs[j].state = "failed" =>
      /\ Len(jobs[j].delays) = 3
      /\ jobs[j].delays[1] = 2000
      /\ \A i \in 2 .. Len(jobs[j].delays) : jobs[j].delays[i] > jobs[j].delays[i - 1]
      /\ jobs[j].failedReason # ""

ActiveJobs(name) == {j \in JobsIn("active") : jobs[j].name = name}

\* C18: at most 5 'analyze' jobs and at most 2 'bulk-analyze' jobs are being
\* processed at any time.
C18_ConcurrencyPerProcessor ==
  /\ Cardinality(ActiveJobs("analyze")) <= 5
  /\ Cardinality(ActiveJobs("bulk-analyze")) <= 2

(***************************************************************************)
(* SpecUploads: the two upload routes, with one key created through the    *)
(* API, and the files multer stored for them.                              *)
(***************************************************************************)
NextUploads ==
  \/ HttpKeysCreate(QuotaKey, [name |-> TRUE, email |-> TRUE, tier |-> NoTier], "u1")
  \/ \E header \in KeyIds \cup {NoKey}, upload \in Uploads \cup {NoFile} :
       AnalyzeArrive(header, upload)
  \/ \E s \in Slots : AnalyzeLookup(s, FALSE)
  \/ \E s \in Slots, analysisFails \in BOOLEAN :
       AnalyzeFinish(s, analysisFails, FALSE, MaxUses)
  \/ RunSave
  \/ \E batch \in BatchesOf({0, 2}, {"T1"}), addFails \in BOOLEAN :
       HttpBulkAnalyze(batch, addFails)

SpecUploads == InitServer /\ [][NextUploads]_vars

\* C19: on every exit path of POST /api/analyze-resume and POST
\* /api/bulk-analyze, fs.unlink has been called for each file multer stored
\* by the time the response is sent: a stored file without an unlink call
\* belongs to a request that is still being handled.
C19_TempFilesUnlinked ==
  \A file \in tempFiles : file[1] \in Slots /\ reqs[file[1]].pc # "free"

\* a request has been answered from the cache and no stored file is left
C19_Witness ==
  /\ resp = Response(AnalyzeResume, 200, "", TRUE)
  /\ tempFiles = {}

(***************************************************************************)
(* The admin dashboard.  POST /api/admin/login checks the credentials and  *)
(* answers with the admin's profile; it hands out no token and keeps no    *)
(* session.  The other admin routes are registered without middleware.     *)
(***************************************************************************)
AdminLogin == "POST /api/admin/login"
AdminMaintenanceToggle == "POST /api/admin/maintenance/toggle"

AdminRoutes == {AdminKeysCreate, AdminKeysTier, AdminMaintenanceToggle}

AdminPasswords == [admin |-> "admin123"]

\* AdminDashboard.authenticateAdmin(username, password)
authenticateAdmin(config, username, password, today) ==
  IF username \notin DOMAIN AdminPasswords
    THEN [success |-> FALSE, error |-> "Invalid username", config |-> config]
  ELSE IF AdminPasswords[username] # password
    THEN [success |-> FALSE, error |-> "Invalid password", config |-> config]
  ELSE [success |-> TRUE, error |-> "", config |-> [config EXCEPT !.lastLogin = today]]

\* POST /api/admin/login
HttpAdminLogin(username, password) ==
  LET auth == authenticateAdmin(adminConfig, username, password, Today)
  IN  /\ IF username = "" \/ password = ""
           THEN /\ resp' = Response(AdminLogin, 400, "Username and password required", FALSE)
                /\ adminConfig' = adminConfig
         ELSE IF ~auth.success
           THEN /\ resp' = Response(AdminLogin, 401, auth.error, FALSE)
                /\ adminConfig' = adminConfig
         ELSE /\ resp' = Response(AdminLogin, 200, "", FALSE)
              /\ adminConfig' = auth.config
      /\ UNCHANGED <<keyVars, reqs, memoryCache, redis, uptime, analysedAt>>
      /\ UNCHANGED <<cacheRet, analyzerVars, queueVars, tempFiles, backups, trackVars>>

\* POST /api/admin/maintenance/toggle: toggleMaintenanceMode()
HttpAdminMaintenanceToggle ==
  /\ adminConfig' = [adminConfig EXCEPT !.maintenanceMode = ~@]
  /\ resp' = Response(AdminMaintenanceToggle, 200, "", FALSE)
  /\ UNCHANGED <<keyVars, reqs, memoryCache, redis, uptime, analysedAt>>
  /\ UNCHANGED <<cacheRet, analyzerVars, queueVars, tempFiles, backups, trackVars>>

NextAdmin ==
  \/ \E username \in {"", "admin", "guest"}, password \in {"", "admin123", "letmein"} :
       HttpAdminLogin(username, password)
  \/ HttpAdminMaintenanceToggle
  \/ \E k \in KeyIds, body \in AdminCreateBodies, g \in UserIds :
       HttpAdminKeysCreate(k, body, g)
  \/ \E k \in KeyIds, tier \in TierInputs : HttpAdminKeysTier(k, tier)

SpecAdmin == InitServer /\ [][NextAdmin]_vars

\* C20: the admin endpoints serve only a caller that has logged in as
\* admin: a request that no successful login preceded is rejected and
\* changes no state.
C20_AdminRoutesNeedLogin ==
  (resp.route \in AdminRoutes /\ adminConfig.lastLogin = NullDate) =>
    /\ resp.status \in {401, 403}
    /\ adminConfig = DefaultAdminConfig
    /\ apiKeys = EmptyStore
    /\ users = EmptyStore

BulkJobs == {j \in JobIds : jobs[j] # NoJob /\ jobs[j].name = "bulk-analyze"}

\* C21: POST /api/bulk-analyze adds a job only for a request that carries a
\* valid X-API-Key; in particular no bulk job is queued while the key store
\* holds no active key that a request could carry.
C21_BulkNeedsValidKey ==
  BulkJobs # {} => \E k \in DOMAIN apiKeys : apiKeys[k].isActive

\* C22: every mutating key-store operation writes the keys file and the
\* users file: once the operation and its deferred save have run, the
\* persisted keys and users equal the records in memory.
C22_FilesFollowMemory ==
  Idle => (keysFile = apiKeys /\ usersFile = users)


(***************************************************************************)
(* GET /api/health.  The route is registered twice in server/index.js;     *)
(* Express runs the handlers of a path in the order of registration and a  *)
(* handler that answers without calling next() ends the chain.             *)
(***************************************************************************)
Health == "GET /api/health"

\* a percentage num / den * 100, kept as a fraction; 0 when den is 0
Percent(num, den) ==
  IF den > 0 THEN [num |-> num * 100, den |-> den] ELSE [num |-> 0, den |-> 1]

\* a bug: an error rate of exactly 50% or 20% already raises the status
determineHealthStatusAtLeast(currentRequests, failures, total) ==
  IF total > 0 /\ failures * 100 >= 50 * total THEN "critical"
  ELSE IF total > 0 /\ failures * 100 >= 20 * total THEN "warning"
  ELSE IF currentRequests = 0 /\ total = 0 THEN "idle"
  ELSE "healthy"

determineHealthStatus(currentRequests, failures, total) ==
  LET errorRate == Percent(failures, total)
  IN  IF errorRate.num > 50 * errorRate.den THEN "critical"
      ELSE IF errorRate.num > 20 * errorRate.den THEN "warning"
      ELSE IF currentRequests = 0 /\ total = 0 THEN "idle"
      ELSE "healthy"

getHealthMetrics(c, currentHour) ==
  LET previousHour == (currentHour + 23) % 24
      currentHourRequests == c.hourlyStats[currentHour]
      recentFailures == c.failedAnalyses
      totalRecent == c.failedAnalyses + c.successfulAnalyses
  IN  [status |-> determineHealthStatus(currentHourRequests, recentFailures, totalRecent),
       metrics |->
         [currentHourRequests |-> currentHourRequests,
          previousHourRequests |-> c.hourlyStats[previousHour],
          errorRate |-> Percent(recentFailures, totalRecent),
          cacheHitRate |-> Percent(c.cacheHits, c.cacheHits + c.cacheMisses)]]

\* the handler registered first: liveness only
healthLiveness ==
  [status |-> "OK", message |-> "Resume Screener API is running"]

\* the handler registered second: the usage tracker's health
healthTracker(c, currentHour) ==
  LET health == getHealthMetrics(c, currentHour)
  IN  [status |-> health.status, metrics |-> health.metrics]

\* the handlers of GET /api/health in the order of their registration
HealthHandlers == <<"healthLiveness", "healthTracker">>

\* the body the named handler answers with
HealthBody(handler, c, currentHour) ==
  IF handler = "healthLiveness" THEN healthLiveness ELSE healthTracker(c, currentHour)

\* GET /api/health: the first handler registered answers
HttpHealth ==
  /\ resp' = Response(Health, 200, "", FALSE)
               @@ [body |-> HealthBody(Head(HealthHandlers), counters, getHours(uptime))]
  /\ UNCHANGED <<keyVars, reqs, memoryCache, redis, uptime, analysedAt>>
  /\ UNCHANGED backVars

(***************************************************************************)
(* SpecHealth: analyses of one key that succeed, fail or hit the cache,    *)
(* with health checks in between.                                          *)
(***************************************************************************)
HealthUploads ==
  {Upload("resume", "pdf", Pdf, 1, "T1"), Upload("broken", "pdf", Pdf, 1, Unreadable)}

NextHealth ==
  \/ HttpKeysCreate(QuotaKey, [name |-> TRUE, email |-> TRUE, tier |-> NoTier], "u1")
  \/ \E upload \in HealthUploads : AnalyzeArrive(QuotaKey, upload)
  \/ \E s \in Slots : AnalyzeLookup(s, FALSE)
  \/ \E s \in Slots, analysisFails \in BOOLEAN :
       AnalyzeFinish(s, analysisFails, FALSE, MaxUses)
  \/ RunSave
  \/ HttpCacheFlush(FALSE)
  \/ HttpHealth

SpecHealth == InitServer /\ [][NextHealth]_vars

HealthStatuses == {"idle", "healthy", "warning", "critical"}

\* C23: GET /api/health answers with the usage tracker's health status
\* (idle, healthy, warning or critical) and with its metrics.
C23_HealthFromTracker ==
  resp.route = Health =>
    /\ resp.body.status \in HealthStatuses
    /\ "metrics" \in DOMAIN resp.body
    /\ resp.body = healthTracker(counters, getHours(uptime))


\* the lookup of the analysis cache for the request in slot s has just run
CacheLookupStep(s) ==
  /\ reqs[s].pc = "extracting" /\ reqs[s].file.text # Unreadable
  /\ reqs'[s].pc # "extracting"

\* C26: every lookup of the analysis cache on the analyze request path logs
\* a cache_hit or a cache_miss event, so cacheHits + cacheMisses grows by
\* one with each lookup.
C26_LookupsCounted ==
  [][\A s \in Slots :
       CacheLookupStep(s) =>
         counters'.cacheHits + counters'.cacheMisses
           = counters.cacheHits + counters.cacheMisses + 1]_vars

\* the analyze request in slot s, which passed the API-key validation, has
\* just been answered
AnsweredStep(s) == reqs[s].pc # "free" /\ reqs'[s].pc = "free"

\* C27: every request that passed the API-key validation adds exactly one
\* to totalRequests, dailyRequests and monthlyRequests of its key and sets
\* lastUsed, also when it is served from the cache or its analysis fails.
C27_ValidatedRequestCounted ==
  [][\A s \in Slots :
       AnsweredStep(s) =>
         LET k == reqs[s].apiKey
         IN  /\ apiKeys'[k].usage.totalRequests = apiKeys[k].usage.totalRequests + 1
             /\ apiKeys'[k].usage.dailyRequests = apiKeys[k].usage.dailyRequests + 1
             /\ apiKeys'[k].usage.monthlyRequests = apiKeys[k].usage.monthlyRequests + 1
             /\ apiKeys'[k].lastUsed = Today]_vars


\* an analysis without the two fields a cache hit adds
WithoutHitFlags(analysis) ==
  [analysis EXCEPT !.cached = FALSE, !.cacheTimestamp = NoTime]

\* C28: an analysis is immutable once cached: apart from the fields cached
\* and cacheTimestamp, the entry of the local store stays the analysis that
\* analyzeResume computed, whatever was done with the response since.
C28_CachedAnalysisImmutable ==
  \A text \in Texts :
    LET key == generateCacheKey(text, "analysis")
    IN  key \in DOMAIN memoryCache =>
          WithoutHitFlags(memoryCache[key].value.analysis) = Analysis(text)


(***************************************************************************)
(* detectIndustry (industryAnalyzer.js).  The text is described by the     *)
(* number of keywords of each profile that it contains.                    *)
(***************************************************************************)
\* Object.entries(industries) without 'general', in insertion order
IndustryOrder == <<"technology", "finance", "marketing", "healthcare", "sales">>

\* a bug: a later profile with an equal score replaces the best match
beatsOnTies(matchCount, total, bestMatch) ==
  /\ matchCount * bestMatch.total >= bestMatch.matchCount * total
  /\ 10 * matchCount > total

\* score > bestMatch.score && score > 0.1, with score = matchCount / total
beats(matchCount, total, bestMatch) ==
  /\ matchCount * bestMatch.total > bestMatch.matchCount * total
  /\ 10 * matchCount > total

RECURSIVE detectFrom(_, _, _)
\* the loop of detectIndustry from the i-th profile on
detectFrom(i, matchCounts, bestMatch) ==
  IF i > Len(IndustryOrder) THEN bestMatch.industry
  ELSE LET key == IndustryOrder[i]
           total == Industries[key].keywords
       IN  detectFrom(i + 1, matchCounts,
                      IF beats(matchCounts[key], total, bestMatch)
                        THEN [industry |-> key, matchCount |-> matchCounts[key],
                              total |-> total]
                        ELSE bestMatch)

detectIndustry(matchCounts) ==
  detectFrom(1, matchCounts, [industry |-> "general", matchCount |-> 0, total |-> 1])

\* keywords found of one profile: none, one, two, half of them, all
MatchCountsOf(key) ==
  {0, 1, 2, Industries[key].keywords \div 2, Industries[key].keywords}

Profiles == {IndustryOrder[i] : i \in 1 .. Len(IndustryOrder)}

MatchCountTexts ==
  [technology : MatchCountsOf("technology"), finance : MatchCountsOf("finance"),
   marketing : MatchCountsOf("marketing"), healthcare : MatchCountsOf("healthcare"),
   sales : MatchCountsOf("sales")]

\* industryAnalyzer.detectIndustry(text) on a text
DetectIndustryCall ==
  /\ anIn = NoAnalyzerCall
  /\ \E matchCounts \in MatchCountTexts :
       /\ anIn' = [op |-> "detectIndustry", matchCounts |-> matchCounts]
       /\ anOut' = [op |-> "detectIndustry", industry |-> detectIndustry(matchCounts),
                    before |-> "none"]
  /\ UNCHANGED <<keyVars, reqs, resp, memoryCache, redis, uptime, analysedAt, cacheRet>>
  /\ UNCHANGED sideVars

\* detectIndustry called once more on the same text; the result of the
\* call before is kept next to the new one
DetectIndustryAgain ==
  /\ anIn # NoAnalyzerCall /\ anIn.op = "detectIndustry"
  /\ anOut.before = "none"
  /\ anIn' = anIn
  /\ anOut' = [op |-> "detectIndustry", industry |-> detectIndustry(anIn.matchCounts),
               before |-> anOut.industry]
  /\ UNCHANGED <<keyVars, reqs, resp, memoryCache, redis, uptime, analysedAt, cacheRet>>
  /\ UNCHANGED sideVars

NextDetect == DetectIndustryCall \/ DetectIndustryAgain

SpecDetect == InitServer /\ [][NextDetect]_vars

\* position of a profile in the fixed order
OrderOf(key) == CHOOSE i \in 1 .. Len(IndustryOrder) : IndustryOrder[i] = key

\* ratio of key a is at least that of key b
RatioAtLeast(m, a, b) ==
  m[a] * Industries[b].keywords >= m[b] * Industries[a].keywords

\* C24: detectIndustry returns the profile with the highest ratio of
\* keywords found if that ratio is over 0.1, the first in the fixed order
\* among equals, and 'general' otherwise; the result depends on the text only.
C24_DetectIndustry ==
  anOut.op = "detectIndustry" =>
    LET m == anIn.matchCounts
        highest == {a \in Profiles : \A b \in Profiles : RatioAtLeast(m, a, b)}
        first == CHOOSE a \in highest : \A b \in highest : OrderOf(a) <= OrderOf(b)
    IN  /\ anOut.industry =
             IF 10 * m[first] > Industries[first].keywords THEN first ELSE "general"
        /\ anOut.before \in {"none", anOut.industry}

\* C24 witness: marketing and sales tie for the highest ratio, above 0.1,
\* and marketing, the earlier one, was returned.
C24_Witness ==
  /\ anOut.op = "detectIndustry"
  /\ anIn.matchCounts["marketing"] = 2 /\ anIn.matchCounts["sales"] = 2
  /\ anIn.matchCounts["technology"] = 2 /\ anIn.matchCounts["finance"] = 2
  /\ anIn.matchCounts["healthcare"] = 1
  /\ anOut.industry = "marketing" /\ anOut.before = "marketing"


(***************************************************************************)
(* The ATS checker (industryAnalyzer.js, class ATSChecker).  A text is     *)
(* described by what the checks find in it.                                *)
(***************************************************************************)
\* the number of conditions that hold
HowMany(conditions) == Cardinality({i \in DOMAIN conditions : conditions[i]})

CommonKeywords == 11

\* /[^\x00-\x7F]/.test(text): a bullet glyph is itself outside ASCII
specialChars(t) == t.otherNonAscii \/ t.bullets > 0

checkFormatting(t) ==
  LET value == 10 - HowMany(<<specialChars(t), t.tables, t.bullets > 20, t.headerFooter>>)
  IN  [score |-> Max(1, value), passed |-> value >= 8]

\* Math.round(found / 11 * 10); no such value lies halfway
checkKeywords(t) ==
  LET density == (t.foundKeywords * 10 * 2 + CommonKeywords) \div (2 * CommonKeywords)
      score == IF t.stuffing THEN density - 2 ELSE density
  IN  [score |-> Max(1, Min(10, score)), passed |-> score >= 6]

checkStructure(t) ==
  LET score == 10 - (IF t.fewSections THEN 2 ELSE 0)
                  - HowMany(<<t.shortLines, t.notChronological>>)
  IN  [score |-> Max(1, score), passed |-> score >= 7]

checkReadability(t) ==
  LET score == 10 - HowMany(<<t.longSentences, t.fewActionVerbs, t.fewNumbers>>)
  IN  [score |-> Max(1, score), passed |-> score >= 7]

checkFileFormat == [score |-> 8, passed |-> TRUE]

\* the weights, in hundredths
AtsWeights ==
  [formatting |-> 25, keywords |-> 25, structure |-> 25, readability |-> 20,
   fileFormat |-> 5]

\* the weighted sum of the five scores, in hundredths
weightedScore(checks) ==
  checks.formatting.score * AtsWeights.formatting
    + checks.keywords.score * AtsWeights.keywords
    + checks.structure.score * AtsWeights.structure
    + checks.readability.score * AtsWeights.readability
    + checks.fileFormat.score * AtsWeights.fileFormat

\* a bug: the weighted sum is truncated
calculateATSScoreTruncated(checks) ==
  (checks.formatting.score * 25 + checks.keywords.score * 25
     + checks.structure.score * 25 + checks.readability.score * 20
     + checks.fileFormat.score * 5) \div 100

\* Math.round(weightedScore); for scores in 1..10 the double sum rounds as
\* the exact sum does, halves upwards
calculateATSScore(checks) == (weightedScore(checks) + 50) \div 100

generateATSRecommendations(checks) ==
  {category \in {"formatting", "keywords", "structure", "readability"} :
     ~checks[category].passed} \cup {"general"}

checkATSCompatibility(t) ==
  LET checks == [formatting |-> checkFormatting(t), keywords |-> checkKeywords(t),
                 structure |-> checkStructure(t), readability |-> checkReadability(t),
                 fileFormat |-> checkFileFormat]
      overallScore == calculateATSScore(checks)
  IN  [score |-> overallScore, checks |-> checks,
       recommendations |-> generateATSRecommendations(checks),
       isATSFriendly |-> overallScore >= 7]

\* numbers of bullet glyphs in a text: none, the most that is not
\* excessive, one more, and 25
BulletCounts == {0, 20, 21, 25}

\* what the checks may find in a text; only a text with a keyword in it
\* can be stuffed with keywords
AtsTexts ==
  {t \in [otherNonAscii : BOOLEAN, tables : BOOLEAN, bullets : BulletCounts,
          headerFooter : BOOLEAN, foundKeywords : 0 .. CommonKeywords,
          stuffing : BOOLEAN, fewSections : BOOLEAN, shortLines : BOOLEAN,
          notChronological : BOOLEAN, longSentences : BOOLEAN,
          fewActionVerbs : BOOLEAN, fewNumbers : BOOLEAN] :
     t.stuffing => t.foundKeywords > 0}

\* atsChecker.checkATSCompatibility(text, metrics), once
CheckATSCompatibilityCall ==
  /\ anIn = NoAnalyzerCall
  /\ \E t \in AtsTexts :
       /\ anIn' = [op |-> "checkATSCompatibility", text |-> t]
       /\ anOut' = [op |-> "checkATSCompatibility", result |-> checkATSCompatibility(t)]
  /\ UNCHANGED <<keyVars, reqs, resp, memoryCache, redis, uptime, analysedAt, cacheRet>>
  /\ UNCHANGED sideVars

NextAts == CheckATSCompatibilityCall

SpecAts == InitServer /\ [][NextAts]_vars

AtsCheckNames == {"formatting", "keywords", "structure", "readability", "fileFormat"}

\* C25: the overall ATS score is the weighted sum of the five sub-check
\* scores (0.25, 0.25, 0.25, 0.20, 0.05) rounded to the nearest integer,
\* halves upwards; every sub-check score and the overall score lie in
\* 1..10; isATSFriendly holds exactly when the overall score is >= 7.
C25_AtsScore ==
  anOut.op = "checkATSCompatibility" =>
    LET r == anOut.result
        sum == 25 * r.checks.formatting.score + 25 * r.checks.keywords.score
                 + 25 * r.checks.structure.score + 20 * r.checks.readability.score
                 + 5 * r.checks.fileFormat.score
    IN  /\ \A name \in AtsCheckNames : r.checks[name].score \in 1 .. 10
        /\ sum - 50 < 100 * r.score /\ 100 * r.score <= sum + 50
        /\ r.score \in 1 .. 10
        /\ r.isATSFriendly <=> r.score >= 7

\* C25 witness: a weighted sum of exactly 6.5 was rounded up to 7, which
\* makes the resume ATS-friendly.
C25_Witness ==
  /\ anOut.op = "checkATSCompatibility"
  /\ anOut.result.checks.formatting.score = 6 /\ anOut.result.checks.keywords.score = 6
  /\ anOut.result.checks.structure.score = 6 /\ anOut.result.checks.readability.score = 8
  /\ anOut.result.score = 7 /\ anOut.result.isATSFriendly


(***************************************************************************)
(* SpecTracker: the usage tracker alone: events are logged, the periodic   *)
(* save runs, and the process is started again.                            *)
(***************************************************************************)
MaxEvents == 2         \* events of one type logged between two starts

\* the counter an event type adds to, 0 for an event that is only logged
CounterOf(c, eventType) ==
  CASE eventType = "analysis_request" -> c.totalRequests
    [] eventType = "analysis_success" -> c.successfulAnalyses
    [] eventType = "analysis_failure" -> c.failedAnalyses
    [] eventType = "cache_hit" -> c.cacheHits
    [] eventType = "cache_miss" -> c.cacheMisses
    [] OTHER -> 0

\* usageTracker.logUsage(eventType, data)
LogUsage(eventType) ==
  /\ CounterOf(counters, eventType) < MaxEvents
  /\ counters' = logUsage(counters, eventType, getHours(uptime))
  /\ UNCHANGED <<keyVars, reqs, resp, memoryCache, redis, uptime, analysedAt>>
  /\ UNCHANGED <<cacheRet, analyzerVars, queueVars, tempFiles, adminConfig, backups, analyticsFile>>

\* the timer of startPeriodicSave fires: saveAnalytics()
SaveAnalytics ==
  /\ analyticsFile' = saveAnalytics(counters)
  /\ UNCHANGED <<keyVars, reqs, resp, memoryCache, redis, uptime, analysedAt>>
  /\ UNCHANGED <<cacheRet, analyzerVars, queueVars, tempFiles, adminConfig, backups, counters>>

\* the process starts again: new UsageTracker() sets the fresh counters and
\* calls loadAnalytics()
Construct ==
  /\ counters' = loadAnalytics(FreshCounters, analyticsFile)
  /\ UNCHANGED <<keyVars, reqs, resp, memoryCache, redis, uptime, analysedAt>>
  /\ UNCHANGED <<cacheRet, analyzerVars, queueVars, tempFiles, adminConfig, backups, analyticsFile>>

NextTracker ==
  \/ \E eventType \in EventTypes : LogUsage(eventType)
  \/ SaveAnalytics
  \/ Construct

SpecTracker == InitServer /\ [][NextTracker]_vars

\* C29: the counters saved by saveAnalytics are restored by loadAnalytics
\* when the tracker is constructed again: after a start with an analytics
\* file on disk the counters in memory equal the snapshot in the file.
C29_CountersRestored ==
  [][(Construct /\ analyticsFile # NoAnalytics)
       => counters' = analyticsFile.counters]_vars

(***************************************************************************)
(* SpecRetention: single-file analysis jobs are added and processed, all   *)
(* within the same hour, on a queue with room for one job more than Bull   *)
(* keeps completed.                                                        *)
(***************************************************************************)
\* the windows of JobQueueService.cleanup()
CompletedRetention == 24 * Hour
FailedRetention == 7 * 24 * Hour

\* getJobStatus(jobId)
getJobStatus(js, jobId) ==
  IF jobId \notin DOMAIN js \/ js[jobId].state \in {"none", "removed"}
    THEN [status |-> "not_found"]
  ELSE [status |-> js[jobId].state,
        progress |-> js[jobId].progress,
        result |-> IF js[jobId].state = "completed" THEN js[jobId].returnvalue
                   ELSE IF js[jobId].state = "failed"
                     THEN [error |-> js[jobId].failedReason]
                   ELSE Null,
        finishedAt |-> js[jobId].finishedOn]

InitRetention ==
  InitKeys /\ InitHttpOf(1 .. RemoveOnComplete + 1) /\ redis.client = "null"

NextRetention ==
  \/ AddResumeAnalysisJob(JobFile(1, "T1"))
  \/ \E j \in JobIds : StartJob(j)
  \/ \E j \in JobIds : ProcessAnalyze(j, FALSE, FALSE)

SpecRetention == InitRetention /\ [][NextRetention]_vars

\* the retention window of a job that finished in this state
RetentionOf(state) == IF state = "completed" THEN CompletedRetention ELSE FailedRetention

\* C30: a completed job stays retrievable through getJobStatus until it is
\* older than 24 hours and a failed job until it is older than 7 days: a
\* job that was added and is not found any more finished longer ago than
\* its retention window.
C30_JobsKeptForRetention ==
  \A j \in JobIds :
    (jobs[j] # NoJob /\ getJobStatus(jobs, j).status = "not_found") =>
      uptime - jobs[j].finishedOn > RetentionOf(jobs[j].was)

\* C31: checkFormatting on a text with 25 bullet glyphs and otherwise plain
\* ASCII content (no tables, no header or footer phrases) deducts exactly
\* one point from 10: the formatting score is 9.
C31_BulletsCostOnePoint ==
  (/\ anOut.op = "checkATSCompatibility"
   /\ anIn.text.bullets = 25 /\ ~anIn.text.otherNonAscii
   /\ ~anIn.text.tables /\ ~anIn.text.headerFooter)
    => anOut.result.checks.formatting.score = 9

(***************************************************************************)
(* SpecStatus: determineHealthStatus on the tallies getHealthMetrics       *)
(* passes to it.                                                           *)
(***************************************************************************)
MaxTally == 5          \* requests, failed and successful analyses counted

\* determineHealthStatus(currentHourRequests, recentFailures, totalRecent), once
DetermineHealthStatusCall ==
  /\ anIn = NoAnalyzerCall
  /\ \E currentRequests \in 0 .. MaxTally, failures \in 0 .. MaxTally,
        successes \in 0 .. MaxTally :
       /\ anIn' = [op |-> "determineHealthStatus", currentRequests |-> currentRequests,
                   failures |-> failures, total |-> failures + successes]
       /\ anOut' = [op |-> "determineHealthStatus",
                    status |-> determineHealthStatus(currentRequests, failures,
                                                     failures + successes)]
  /\ UNCHANGED <<keyVars, reqs, resp, memoryCache, redis, uptime, analysedAt, cacheRet>>
  /\ UNCHANGED sideVars

NextStatus == DetermineHealthStatusCall

SpecStatus == InitServer /\ [][NextStatus]_vars

WindowCap == 1000

MaxOverflow == 2       \* values recorded beyond the cap of the window

\* a bug: the newest entries are dropped
pushWindowKeepsOldest(window, value) ==
  IF value = 0 THEN window
  ELSE IF Len(window) + 1 > 1000 THEN SubSeq(Append(window, value), 1, 1000)
  ELSE Append(window, value)

\* if (data.x) { xs.push(data.x); if (xs.length > 1000) xs = xs.slice(-1000) }
pushWindow(window, value) ==
  IF value = 0 THEN window
  ELSE LET pushed == Append(window, value)
       IN  IF Len(pushed) > WindowCap
             THEN SubSeq(pushed, Len(pushed) - WindowCap + 1, Len(pushed))
             ELSE pushed

NoWindow == [op |-> "analysis_success", window |-> <<>>, recorded |-> 0]

\* logUsage('analysis_success', data): the value of the event is the next
\* number, or 0
LogAnalysisSuccess ==
  /\ anIn \in {NoAnalyzerCall, NoWindow}
  /\ LET before == IF anOut = NoAnalyzerCall THEN NoWindow ELSE anOut
     IN  /\ before.recorded < WindowCap + MaxOverflow
         /\ \E value \in {0, before.recorded + 1} :
              anOut' = [op |-> "analysis_success",
                        window |-> pushWindow(before.window, value),
                        recorded |-> IF value = 0 THEN before.recorded
                                     ELSE before.recorded + 1]
  /\ anIn' = NoWindow
  /\ UNCHANGED <<keyVars, reqs, resp, memoryCache, redis, uptime, analysedAt, cacheRet>>
  /\ UNCHANGED sideVars

NextWindows == LogAnalysisSuccess

SpecWindows == InitServer /\ [][NextWindows]_vars

\* C33: a rolling window holds at most 1000 entries, and they are the most
\* recently recorded values in the order of their arrival.
C33_WindowKeepsNewest ==
  anOut.op = "analysis_success" =>
    LET n == Len(anOut.window)
    IN  /\ n = Min(WindowCap, anOut.recorded)
        /\ \A i \in 1 .. n : anOut.window[i] = anOut.recorded - n + i

\* C33 witness: the 1001st value was recorded and the first one is gone.
C33_Witness ==
  /\ anOut.op = "analysis_success"
  /\ anOut.recorded = WindowCap + 1
  /\ Len(anOut.window) = WindowCap
  /\ anOut.window[1] = 2 /\ anOut.window[WindowCap] = WindowCap + 1

\* ---------------------------------------------------------------------------
\* System backup (adminDashboard.js 368-431).  A backup file is
\* backup_<timestamp>.json, the timestamp being the millisecond in which
\* createSystemBackup started; its mtime is the millisecond in which
\* writeFileSync finished.  Both are counted from the first backup.

MaxMs == 12

KeepBackups == 10

\* cleanupOldBackups: the files sorted by mtime, newest first, the first 10
\* kept.  Files of equal mtime keep the order in which readdirSync listed
\* them, which the file system chooses: every split of the sorted list is a
\* possible outcome.
cleanupOldBackups(files) ==
  IF Cardinality(files) > KeepBackups
  THEN {kept \in SUBSET files :
          /\ Cardinality(kept) = KeepBackups
          /\ \A k \in kept : \A gone \in files \ kept : k.mtime >= gone.mtime}
  ELSE {files}

backupData == [config |-> adminConfig, apiKeys |-> keysFile,
               users |-> usersFile, analytics |-> analyticsFile]

\* writeFileSync(backupFile, ...): a file of the same name is overwritten.
writeBackup(files, timestamp, mtime) ==
  {f \in files : f.name # timestamp}
    \cup {[name |-> timestamp, mtime |-> mtime, data |-> backupData]}

LastWrite == IF backups = {} THEN 1
             ELSE CHOOSE m \in 1 .. MaxMs : /\ \A f \in backups : f.mtime <= m
                                            /\ \E g \in backups : g.mtime = m

CreateSystemBackup ==
  \E timestamp \in LastWrite .. LastWrite + 1 :
    \E mtime \in timestamp .. timestamp + 1 :
      /\ mtime <= MaxMs
      /\ \E kept \in cleanupOldBackups(writeBackup(backups, timestamp, mtime)) :
           backups' = kept
      /\ UNCHANGED <<keyVars, reqs, resp, memoryCache, redis, uptime, analysedAt>>
      /\ UNCHANGED <<cacheRet, analyzerVars, queueVars, tempFiles, adminConfig, trackVars>>

NextBackup == CreateSystemBackup

SpecBackup == InitServer /\ [][NextBackup]_vars

\* C34: every createSystemBackup leaves at most 10 backup files, the new
\* snapshot among them, and removes only files older (by creation, that is by
\* name) than every file it keeps: the files left are the 10 most recently
\* created ones.
C34_KeepsTenNewest ==
  [][/\ Cardinality(backups') <= KeepBackups
     /\ \E new \in backups' : /\ new.data = backupData
                              /\ \A f \in backups' : f.name <= new.name
     /\ \A gone \in backups :
          (\A f \in backups' : f.name # gone.name)
            => \A f \in backups' : gone.name < f.name]_vars

\* C35: every key record's userId names a user record whose apiKeys list
\* contains the key and whose tier is the key's tier, also when several keys
\* were created with one userId and after updateTier on one of them.
C35_KeysBelongToUsers ==
  \A k \in DOMAIN apiKeys :
    LET u == apiKeys[k].userId IN
    /\ u \in DOMAIN users
    /\ \E i \in DOMAIN users[u].apiKeys : users[u].apiKeys[i] = k
    /\ users[u].tier = apiKeys[k].tier

\* C36: the progress of a bulk job never decreases, and a poll that reads
\* progress 100 finds every file of the batch processed.
C36_BulkProgress ==
  /\ [](\A j \in JobIds :
          (jobs[j] # NoJob /\ jobs[j].name = "bulk-analyze"
             /\ getJobStatus(jobs, j).progress = 100)
            => jobs[j].processed = Len(jobs[j].files))
  /\ [][\A j \in JobIds :
          (jobs[j] # NoJob /\ jobs[j].name = "bulk-analyze")
            => getJobStatus(jobs', j).progress >= getJobStatus(jobs, j).progress]_vars

\* C38: no temp file of a failed attempt of an 'analyze' job is left: a job
\* that waits for its next attempt, or has completed or failed, has no temp
\* file.
C38_NoTempFileLeft ==
  \A j \in JobIds :
    (jobs[j].state \in {"delayed", "completed", "failed"} /\ jobs[j].name = "analyze")
      => jobs[j].temp = {}

\* C37: the usage tracker has counted at least as many requests as successful
\* and failed analyses together.
C37_RequestsCoverAnalyses ==
  counters.totalRequests >= counters.successfulAnalyses + counters.failedAnalyses

(***************************************************************************)
(* SpecScore: calculateIndustryScore called twice on the scores of a       *)
(* text, the second time with another industry alignment score.            *)
(***************************************************************************)
ScoredTexts == TextsOf(IndustryKeys, {450})

\* the values Math.min(10, industryAlignmentScore) tried in the second call
AlignmentScores == {3, 6, 10}

\* both calls compute the same floating-point sum from the scores they
\* read, so a half-way sum is rounded the same way in both
CalculateIndustryScoreTwice ==
  /\ anIn = NoAnalyzerCall
  /\ \E text \in ScoredTexts, other \in AlignmentScores, tieUp \in BOOLEAN :
       LET industryAnalysis == IndustryFitOf(text)
           scores == fallbackScores(text, MetricsOf(text), industryAnalysis)
           otherScores == [scores EXCEPT !.industryAlignment = other]
       IN  /\ anIn' = [op |-> "calculateIndustryScore", text |-> text, tieUp |-> tieUp,
                       first |-> scores, second |-> otherScores]
           /\ anOut' = [first |-> calculateIndustryScore(scores, industryAnalysis, tieUp),
                        second |-> calculateIndustryScore(otherScores, industryAnalysis,
                                                          tieUp)]
  /\ UNCHANGED <<keyVars, reqs, resp, memoryCache, redis, uptime, analysedAt, cacheRet>>
  /\ UNCHANGED sideVars

NextScore == CalculateIndustryScoreTwice

SpecScore == InitServer /\ [][NextScore]_vars

\* C39: two calls of calculateIndustryScore whose basic scores differ only in
\* industryAlignment, for the same industry analysis, return the same
\* industryAdjustedOverall.
C39_AlignmentNotScored ==
  (/\ anIn.op = "calculateIndustryScore"
   /\ \A name \in DOMAIN anIn.first \ {"industryAlignment"} :
        anIn.first[name] = anIn.second[name])
    => anOut.first = anOut.second

\* C39 witness: the alignment scores 10 and 3 of a healthcare text gave the
\* same overall score.
C39_Witness ==
  /\ anIn.op = "calculateIndustryScore"
  /\ anIn.text.industry = "healthcare"
  /\ anIn.first.industryAlignment = 10 /\ anIn.second.industryAlignment = 3
  /\ anOut.first = anOut.second
====
